---- MODULE Spec2Model ----
(***************************************************************************)
(* Model of the action-extraction pipeline of Mail2Do                      *)
(* (src/scripts/local_email_processor.py, class EmailProcessor).           *)
(*                                                                         *)
(* Texts are sequences of one-character strings.  Korean syllables are     *)
(* written as ASCII transliterations, one string per syllable ("bu","tak"  *)
(* for the two syllables of the request keyword), so that lengths and      *)
(* offsets are those of the Python strings.  Offsets are 0-based and       *)
(* half-open as in the code: Slice(s, a, b) is s[a:b].                     *)
(***************************************************************************)
EXTENDS Integers, Sequences, FiniteSets, TLC

\* ------------------------------------------------------------------------
\* Bounds of the model
\* ------------------------------------------------------------------------
MaxPieces == 4

\* ------------------------------------------------------------------------
\* Python string helpers
\* ------------------------------------------------------------------------
Min(a, b) == IF a < b THEN a ELSE b
Max(a, b) == IF a > b THEN a ELSE b

\* s[a:b] for 0 <= a
Slice(s, a, b) == SubSeq(s, a + 1, Min(b, Len(s)))

\* s[a:]
SliceFrom(s, a) == SubSeq(s, a + 1, Len(s))

\* what \s matches, among the characters of the model
Whitespace == {" ", "\n"}

\* sub is found in s at 0-based offset i
MatchAt(s, sub, i) ==
    /\ i + Len(sub) <= Len(s)
    /\ \A k \in 1..Len(sub) : s[i + k] = sub[k]

\* sub in s
Contains(s, sub) == \E i \in 0..(Len(s) - Len(sub)) : MatchAt(s, sub, i)

\* s.find(sub): the least offset, -1 when absent
Find(s, sub) ==
    IF Contains(s, sub)
    THEN CHOOSE i \in 0..(Len(s) - Len(sub)) :
            /\ MatchAt(s, sub, i)
            /\ \A k \in 0..(i - 1) : ~MatchAt(s, sub, k)
    ELSE -1

StartsWith(s, pre) == MatchAt(s, pre, 0)

\* s.replace(c, "")
Remove(s, c) == SelectSeq(s, LAMBDA x : x # c)

RECURSIVE LStripSet(_, _)
LStripSet(s, cs) ==
    IF s # <<>> /\ Head(s) \in cs THEN LStripSet(Tail(s), cs) ELSE s

RECURSIVE RStripSet(_, _)
RStripSet(s, cs) ==
    IF s # <<>> /\ s[Len(s)] \in cs THEN RStripSet(SubSeq(s, 1, Len(s) - 1), cs) ELSE s

\* s.strip()
Strip(s) == RStripSet(LStripSet(s, Whitespace), Whitespace)

\* str.lower() on one character
LowerChar(c) == IF c = "M" THEN "m" ELSE IF c = "O" THEN "o" ELSE c

Lower(s) == [k \in 1..Len(s) |-> LowerChar(s[k])]

\* s.split(c, 1)[0]
BeforeFirst(s, c) ==
    IF \E k \in 1..Len(s) : s[k] = c
    THEN SubSeq(s, 1, (CHOOSE k \in 1..Len(s) :
                          s[k] = c /\ \A h \in 1..(k - 1) : s[h] # c) - 1)
    ELSE s

\* ------------------------------------------------------------------------
\* Characters
\* ------------------------------------------------------------------------
\* [A-Za-z0-9] and the syllables ga..hih, as far as the model's texts use them
WordChars == {"m", "o", "t", "w", "M", "O", "d", "nim", "ssi", "deul",
              "bu", "tak", "yo", "cheong", "hwak", "in", "geom", "to", "seung",
              "hoe", "sin", "jeuk", "si", "gin", "geup", "ma", "gam", "wan", "ryo",
              "hae", "ju", "se", "ba", "rap", "ni", "da", "cheo", "ri", "dae",
              "eung", "bun", "seok", "jeom", "sil", "haeng", "kka", "ji", "a",
              "rae", "jak", "eop", "eum", "nae", "il"}

\* the class of mention_re in _get_self_mention_segments
SegMentionClass == WordChars \cup {"_", ".", "-"}

\* the class of mention_re in _is_due_for_user (no hyphen)
DueMentionClass == WordChars \cup {"_", "."}

\* ------------------------------------------------------------------------
\* re.finditer(r"@[cls]+(?:\([^)]+\))?", text)
\* ------------------------------------------------------------------------
\* end (exclusive, 0-based) of the longest run of cls characters from offset p
ClassRunEnd(text, p, cls) ==
    CHOOSE q \in p..Len(text) :
        /\ \A k \in (p + 1)..q : text[k] \in cls
        /\ q < Len(text) => text[q + 1] \notin cls

\* end of the optional group \([^)]+\) tried at offset p; p when it does not match
ParenGroupEnd(text, p) ==
    IF /\ p < Len(text)
       /\ text[p + 1] = "("
       /\ \E k \in (p + 2)..Len(text) : text[k] = ")"
    THEN LET close == CHOOSE k \in (p + 2)..Len(text) :
                         /\ text[k] = ")"
                         /\ \A h \in (p + 2)..(k - 1) : text[h] # ")"
         IN  IF close > p + 2 THEN close ELSE p
    ELSE p

\* a mention starts at offset q: "@" followed by a cls character
MentionStartsAt(text, q, cls) ==
    q + 1 < Len(text) /\ text[q + 1] = "@" /\ text[q + 2] \in cls

RECURSIVE MentionsFrom(_, _, _)
\* the matches from offset p on, left to right and non-overlapping
MentionsFrom(text, p, cls) ==
    IF \E q \in p..(Len(text) - 1) : MentionStartsAt(text, q, cls)
    THEN LET q == CHOOSE q \in p..(Len(text) - 1) :
                     /\ MentionStartsAt(text, q, cls)
                     /\ \A h \in p..(q - 1) : ~MentionStartsAt(text, h, cls)
             e == ParenGroupEnd(text, ClassRunEnd(text, q + 1, cls))
         IN  <<[start |-> q, end |-> e]>> \o MentionsFrom(text, e, cls)
    ELSE <<>>

Mentions(text, cls) == MentionsFrom(text, 0, cls)

\* m.group(0)
Group0(text, m) == Slice(text, m.start, m.end)

\* ------------------------------------------------------------------------
\* The recipient context of a run (name, email, team)
\* ------------------------------------------------------------------------
UserContext == [name  |-> <<"m">>,
                email |-> <<"m", "@", "d">>,
                team  |-> <<"t">>]

\* re.sub(r"(nim|ssi|nimdeul)$", "", base)
StripHonorific(base) ==
    LET n == Len(base)
    IN  IF n >= 2 /\ base[n - 1] = "nim" /\ base[n] = "deul" THEN SubSeq(base, 1, n - 2)
        ELSE IF n >= 1 /\ base[n] \in {"nim", "ssi"} THEN SubSeq(base, 1, n - 1)
        ELSE base

\* _is_self_mention_text without its match on the start of the mention
IsSelfMentionText_NoPrefix(mention_text, uc) ==
    LET name   == Strip(uc.name)
        email  == Lower(Strip(uc.email))
        team   == Strip(uc.team)
        raw    == Strip(mention_text)
        base   == StripHonorific(
                      Lower(Remove(BeforeFirst(LStripSet(raw, {"@"}), "("), " ")))
        packed == Lower(Remove(raw, " "))
        email_local == IF email # <<>> THEN BeforeFirst(email, "@") ELSE <<>>
        pname  == Lower(Remove(name, " "))
    IN  /\ StartsWith(raw, <<"@">>)
        /\ \/ name # <<>> /\ base = pname
           \/ email # <<>> /\ Contains(packed, email)
           \/ email_local # <<>> /\ base = email_local
           \/ team # <<>> /\ Contains(packed, Lower(Remove(team, " ")))

\* EmailProcessor._is_self_mention_text
IsSelfMentionText(mention_text, uc) ==
    LET name   == Strip(uc.name)
        email  == Lower(Strip(uc.email))
        team   == Strip(uc.team)
        raw    == Strip(mention_text)
        base   == StripHonorific(
                      Lower(Remove(BeforeFirst(LStripSet(raw, {"@"}), "("), " ")))
        packed == Lower(Remove(raw, " "))
        email_local == IF email # <<>> THEN BeforeFirst(email, "@") ELSE <<>>
        pname  == Lower(Remove(name, " "))
    IN  /\ StartsWith(raw, <<"@">>)
        /\ \/ name # <<>> /\ base = pname
           \/ name # <<>> /\ StartsWith(packed, <<"@">> \o pname)
           \/ email # <<>> /\ Contains(packed, email)
           \/ email_local # <<>> /\ base = email_local
           \/ team # <<>> /\ Contains(packed, Lower(Remove(team, " ")))

\* ------------------------------------------------------------------------
\* EmailProcessor._get_self_mention_segments
\* ------------------------------------------------------------------------
CLUSTER_GAP == 80
BACKOFF == 50
DefaultMaxChars == 1500
DefaultMaxLines == 25

\* the gap test of the clustering loop: same line and at most CLUSTER_GAP apart
SameCluster(text, prev, next) ==
    LET gap == Slice(text, prev.end, next.start)
    IN  (\A k \in 1..Len(gap) : gap[k] # "\n") /\ Len(gap) <= CLUSTER_GAP

RECURSIVE ClusterStop(_, _, _)
\* the index j at which the inner while loop stops (ms is 1-based here)
ClusterStop(text, ms, j) ==
    IF j <= Len(ms) /\ SameCluster(text, ms[j - 1], ms[j])
    THEN ClusterStop(text, ms, j + 1)
    ELSE j

\* re.search(r"\n\s*\n", seg).start(), -1 when there is no match
BlankLineStart(seg) ==
    LET hit(i) == /\ seg[i] = "\n"
                  /\ \E j \in (i + 1)..Len(seg) :
                        /\ seg[j] = "\n"
                        /\ \A k \in (i + 1)..(j - 1) : seg[k] \in Whitespace
    IN  IF \E i \in 1..Len(seg) : hit(i)
        THEN (CHOOSE i \in 1..Len(seg) : hit(i) /\ \A h \in 1..(i - 1) : ~hit(h)) - 1
        ELSE -1

\* len(seg.splitlines()), "\n" being the only line break of the model's texts
LineCount(seg) ==
    Cardinality({k \in 1..Len(seg) : seg[k] = "\n"})
        + (IF seg # <<>> /\ seg[Len(seg)] # "\n" THEN 1 ELSE 0)

\* "\n".join(seg.splitlines()[:n]) when seg has more than n lines: the text
\* before the n-th line break
JoinFirstLines(seg, n) ==
    IF n = 0 THEN <<>>
    ELSE LET nth == CHOOSE k \in 1..Len(seg) :
                       /\ seg[k] = "\n"
                       /\ Cardinality({h \in 1..k : seg[h] = "\n"}) = n
         IN  SubSeq(seg, 1, nth - 1)

\* the blank-line cut
CutAtBlankLine(seg) ==
    IF BlankLineStart(seg) >= 0 THEN Slice(seg, 0, BlankLineStart(seg)) ELSE seg

\* the two length limits
LimitLength(seg, max_chars, max_lines) ==
    LET byLines == IF LineCount(seg) > max_lines THEN JoinFirstLines(seg, max_lines)
                   ELSE seg
    IN  IF Len(byLines) > max_chars THEN Slice(byLines, 0, max_chars) ELSE byLines

\* SegmentOf with the segment running to the end of the text instead of
\* stopping at the next mention
SegmentOf_ToEndOfText(text, ms, i, j, max_chars, max_lines) ==
    LET cluster_start == ms[i].start
        seg_start     == Max(0, cluster_start - BACKOFF)
        seg == LimitLength(CutAtBlankLine(Slice(text, seg_start, Len(text))),
                           max_chars, max_lines)
    IN  [start |-> seg_start, end |-> seg_start + Len(seg), text |-> seg,
         cluster_start |-> cluster_start, cluster_end |-> ms[j - 1].end,
         first_end |-> ms[i].end]

\* the segment built for the cluster ms[i..j-1]; cluster_start and cluster_end
\* are kept with it (the code computes them and then drops them)
SegmentOf(text, ms, i, j, max_chars, max_lines) ==
    LET cluster_start == ms[i].start
        cluster_end   == ms[j - 1].end
        next_start    == IF j <= Len(ms) THEN ms[j].start ELSE Len(text)
        seg_start     == Max(0, cluster_start - BACKOFF)
        seg_end       == next_start
        seg == LimitLength(CutAtBlankLine(Slice(text, seg_start, seg_end)),
                           max_chars, max_lines)
    IN  [start |-> seg_start, end |-> seg_start + Len(seg), text |-> seg,
         cluster_start |-> cluster_start, cluster_end |-> cluster_end,
         first_end |-> ms[i].end]

RECURSIVE SegmentsFrom(_, _, _, _, _, _)
\* the outer while loop from index i (1-based)
SegmentsFrom(text, uc, ms, i, max_chars, max_lines) ==
    IF i > Len(ms) THEN <<>>
    ELSE LET j == ClusterStop(text, ms, i + 1)
             rest == SegmentsFrom(text, uc, ms, j, max_chars, max_lines)
         IN  IF \E k \in i..(j - 1) : IsSelfMentionText(Group0(text, ms[k]), uc)
             THEN <<SegmentOf(text, ms, i, j, max_chars, max_lines)>> \o rest
             ELSE rest

GetSelfMentionSegments(text, uc, max_chars, max_lines) ==
    SegmentsFrom(text, uc, Mentions(text, SegMentionClass), 1, max_chars, max_lines)

\* ------------------------------------------------------------------------
\* EmailProcessor._find_context and EmailProcessor._is_due_for_user
\* ------------------------------------------------------------------------
DUE_CLUSTER_GAP == 80
ContextWidth == 80
LookbackWindow == 200

\* _find_context(text, snippet, width)
FindContext(text, snippet, width) ==
    LET i == Find(text, snippet)
    IN  IF i = -1 THEN <<>>
        ELSE Slice(text, Max(0, i - width), Min(Len(text), i + Len(snippet) + width))

\* one of the words matches at offset i
AnyMatchAt(s, words, i) == \E w \in words : MatchAt(s, w, i)

\* re.search(r"(kka-ji|ma-gam|bu-tak|yo-cheong|hwak-in|wan-ryo)", s)
RequestMarkers ==
    { <<"kka", "ji">>, <<"ma", "gam">>, <<"bu", "tak">>, <<"yo", "cheong">>,
      <<"hwak", "in">> }
DoneMarker == <<"wan", "ryo">>

HasMarker(s, words) == \E i \in 0..Len(s) : AnyMatchAt(s, words, i)

\* re.search(r"(a-rae\s*jak-eop|da-eum\s*jak-eop).*(kka-ji|...|hwak-in)", ctx):
\* a lead word at offset i, whitespace, "jak-eop", then a request marker later
\* on the same line
TaskLeadAt(ctx, i) ==
    /\ AnyMatchAt(ctx, {<<"a", "rae">>, <<"da", "eum">>}, i)
    /\ MatchAt(ctx, <<"jak", "eop">>, ClassRunEnd(ctx, i + 2, Whitespace))

TaskPattern(ctx) ==
    \E i \in 0..Len(ctx) :
        /\ TaskLeadAt(ctx, i)
        /\ LET q == ClassRunEnd(ctx, i + 2, Whitespace) + 2
           IN  \E r \in q..Len(ctx) :
                  /\ AnyMatchAt(ctx, RequestMarkers, r)
                  /\ \A k \in (q + 1)..r : ctx[k] # "\n"

\* rule 4: the body has no mention at all
DueRuleNoMentions(text, cand, name, email, team) ==
    LET ctx == FindContext(text, cand, ContextWidth)
    IN  \/ name # <<>> /\ Contains(ctx, name)
        \/ email # <<>> /\ Contains(ctx, email)
        \/ team # <<>> /\ Contains(ctx, team)
        \/ TaskPattern(ctx)

\* rule 1: cand starts between a self mention and the next mention
DueRuleAfterSelfMention(text, cand_idx, ms, uc) ==
    \E i \in 1..Len(ms) :
        /\ IsSelfMentionText(Group0(text, ms[i]), uc)
        /\ ms[i].end <= cand_idx
        /\ cand_idx < (IF i + 1 <= Len(ms) THEN ms[i + 1].start ELSE Len(text))

RECURSIVE ClusterFirst(_, _, _)
\* the backward clustering loop: the index of the first mention of the cluster
\* that ends with ms[first]
ClusterFirst(text, ms, first) ==
    IF /\ first - 1 >= 1
       /\ LET gap_text == Slice(text, ms[first - 1].end, ms[first].start)
          IN  (\A k \in 1..Len(gap_text) : gap_text[k] # "\n")
                  /\ Len(gap_text) <= DUE_CLUSTER_GAP
    THEN ClusterFirst(text, ms, first - 1)
    ELSE first

\* rule 2: cand follows a mention cluster that contains the recipient
DueRuleAfterCluster(text, cand_idx, ms, uc) ==
    LET before == {i \in 1..Len(ms) : ms[i].start < cand_idx}
    IN  /\ before # {}
        /\ LET last_before == CHOOSE i \in before : \A h \in before : h <= i
               first == ClusterFirst(text, ms, last_before)
               cluster_end == ms[last_before].end
               has_mention_between ==
                   \E i \in 1..Len(ms) :
                       ms[i].start >= cluster_end /\ ms[i].start < cand_idx
           IN  /\ ~has_mention_between
               /\ \E i \in first..last_before :
                     IsSelfMentionText(Group0(text, ms[i]), uc)

\* rule 3: the last mention of the lookback window is the recipient's
DueRuleLookback(text, cand_idx, uc) ==
    LET ctx == Slice(text, Max(0, cand_idx - LookbackWindow), cand_idx)
        cms == Mentions(ctx, DueMentionClass)
    IN  /\ cms # <<>>
        /\ LET last_any == cms[Len(cms)]
               tail == SliceFrom(ctx, last_any.end)
           IN  /\ IsSelfMentionText(Group0(ctx, last_any), uc)
               /\ \/ \A k \in 1..Len(tail) : tail[k] # "\n"
                  \/ HasMarker(tail, RequestMarkers \cup {DoneMarker})

\* EmailProcessor._is_due_for_user
IsDueForUser(text, cand, uc) ==
    LET name  == Strip(uc.name)
        email == Strip(uc.email)
        team  == Strip(uc.team)
        cand_idx == Find(text, cand)
        ms == Mentions(text, DueMentionClass)
    IN  IF cand_idx = -1 THEN FALSE
        ELSE IF ms = <<>> THEN DueRuleNoMentions(text, cand, name, email, team)
        ELSE \/ DueRuleAfterSelfMention(text, cand_idx, ms, uc)
             \/ DueRuleAfterCluster(text, cand_idx, ms, uc)
             \/ DueRuleLookback(text, cand_idx, uc)

\* ------------------------------------------------------------------------
\* Python values whose type the code tests (isinstance, truthiness)
\* ------------------------------------------------------------------------
\* a string kept as its characters
PyStr(v) == [t |-> "str", v |-> v]
\* a string of a small vocabulary (a type name, a priority, a tag), kept whole
PySym(v) == [t |-> "sym", v |-> v]
PyList(v) == [t |-> "list", v |-> v]
PyBool(v) == [t |-> "bool", v |-> v]
\* a non-zero number
PyInt == [t |-> "int"]
\* None, and equally a key that is missing when it is read with .get(key)
PyNone == [t |-> "none"]

\* bool(v)
Truthy(v) ==
    CASE v.t = "none" -> FALSE
      [] v.t = "bool" -> v.v
      [] v.t = "str"  -> v.v # <<>>
      [] v.t = "sym"  -> v.v # ""
      [] v.t = "list" -> v.v # <<>>
      [] OTHER        -> TRUE

\* ------------------------------------------------------------------------
\* EmailProcessor.analyze_with_policy_engine
\* ------------------------------------------------------------------------
\* the characters of the model's texts that \S matches
NonSpace == WordChars \cup {"@", "(", ")", "_", ".", "-"}

request_keywords ==
    { <<"bu", "tak">>, <<"yo", "cheong">>, <<"hwak", "in">>, <<"geom", "to">>,
      <<"seung", "in">>, <<"hoe", "sin">>, <<"jeuk", "si">>, <<"gin", "geup">>,
      <<"ma", "gam">>, <<"wan", "ryo">>, <<"hae", "ju", "se", "yo">>,
      <<"ba", "rap", "ni", "da">>, <<"cheo", "ri">>, <<"dae", "eung">>,
      <<"bun", "seok">>, <<"jeom", "geom">>, <<"sil", "haeng">> }

\* re.findall(r"@(\S+(?:\([^)]+\))?)", body), each re-prefixed with "@": the
\* greedy \S+ runs to the next whitespace, where the optional group cannot start
PolicyMentions(text) ==
    LET ms == Mentions(text, NonSpace)
    IN  [k \in 1..Len(ms) |-> Group0(text, ms[k])]

InList(x, l) == \E k \in 1..Len(l) : l[k] = x

\* the body of the try block over the locals l of the function: the decision,
\* or "TypeError" when `user_team in body` is evaluated with a team that is
\* not a string
PolicyTryBlock(l) ==
    LET at_name == <<"@">> \o l.user_name
        names_user(k) == l.user_name # <<>> /\ Contains(l.mentions[k], at_name)
    IN  IF l.to_contains_self /\ l.request_detected
        THEN IF \/ ~(\E k \in 1..Len(l.mentions) : l.mentions[k] # at_name)
                \/ \E k \in 1..Len(l.mentions) : names_user(k)
             THEN "A"
             ELSE "none"
        ELSE IF l.cc_contains_self /\ ~l.to_contains_self
        THEN IF \E k \in 1..Len(l.mentions) : names_user(k) THEN "A" ELSE "B"
        ELSE IF l.self_sent /\ l.request_detected
        THEN "C"
        ELSE IF ~l.to_contains_self THEN "none"
        ELSE IF l.user_team.t = "none" \/ (l.user_team.t = "str" /\ l.user_team.v = <<>>)
        THEN "none"
        ELSE IF l.user_team.t # "str" THEN "TypeError"
        ELSE IF Contains(l.body, l.user_team.v) /\ l.request_detected THEN "D"
        ELSE "none"

\* the decision block with no except clause
PolicyDecision_NoExcept(l) == PolicyTryBlock(l)

\* the try/except around the decision
PolicyDecision(l) ==
    IF PolicyTryBlock(l) = "TypeError" THEN "none" ELSE PolicyTryBlock(l)

AnalyzeWithPolicyEngine(email_data, uc) ==
    LET from_email == IF email_data.from_address.t = "str"
                      THEN email_data.from_address.v ELSE <<>>
        to_emails  == IF email_data.to_addresses.t = "list"
                      THEN email_data.to_addresses.v ELSE <<>>
        cc_emails  == IF email_data.cc_addresses.t = "list"
                      THEN email_data.cc_addresses.v ELSE <<>>
        ebody      == IF email_data.email_body.t = "str"
                      THEN email_data.email_body.v ELSE <<>>
        mentions   == IF ebody # <<>> THEN PolicyMentions(ebody) ELSE <<>>
        request_detected ==
            ebody # <<>> /\ \E kw \in request_keywords : Contains(ebody, kw)
        self_sent  == from_email # <<>> /\ uc.email # <<>> /\ from_email = uc.email
        to_contains_self == uc.email # <<>> /\ InList(uc.email, to_emails)
        cc_contains_self == uc.email # <<>> /\ InList(uc.email, cc_emails)
    IN  [policy_decision  |->
             PolicyDecision([to_contains_self |-> to_contains_self,
                             cc_contains_self |-> cc_contains_self,
                             self_sent |-> self_sent,
                             request_detected |-> request_detected,
                             mentions |-> mentions, body |-> ebody,
                             user_name |-> uc.name, user_team |-> uc.team]),
         self_sent        |-> self_sent,
         to_contains_self |-> to_contains_self,
         cc_contains_self |-> cc_contains_self,
         mentions         |-> mentions,
         request_detected |-> request_detected]

\* ------------------------------------------------------------------------
\* EmailProcessor._validate_and_fix_action
\* ------------------------------------------------------------------------
MaxTitleLen == 20

\* str.upper() on the type names the model's completions use
UpperSym(a) ==
    CASE a = "do" -> "DO"
      [] a = "follow_up" -> "FOLLOW_UP"
      [] a = "none" -> "NONE"
      [] OTHER -> a

\* result.get("action") or {}: an absent, null or empty action reads as a dict
\* all of whose keys are missing
EmptyAction ==
    [t |-> "dict", type |-> PyNone, title |-> PyNone, priority |-> PyNone,
     tags |-> PyNone, assignee_candidates |-> PyNone, due_raw |-> PyNone,
     rationale |-> PySym("")]

\* the attribute errors of the function: .get on an action that is not a dict,
\* .upper() / .strip() on a value that is not a string
ValidateRaises(result) ==
    /\ Truthy(result.action)
    /\ \/ result.action.t # "dict"
       \/ Truthy(result.action.type) /\ result.action.type.t # "sym"
       \/ Truthy(result.action.title) /\ result.action.title.t # "str"
       \/ Truthy(result.action.due_raw) /\ result.action.due_raw.t # "str"

\* a_type when every type that is given is kept
CoerceType_KeepUnknown(action) ==
    IF Truthy(action.type) THEN UpperSym(action.type.v) ELSE "NONE"

\* a_type before the self-sent correction
CoerceType(action) ==
    LET a_type == IF Truthy(action.type) THEN UpperSym(action.type.v) ELSE "NONE"
    IN  IF a_type \in {"DO", "FOLLOW_UP", "NONE"} THEN a_type ELSE "NONE"

\* title: stripped, cut to 20 characters, right-stripped
FixTitle(action) ==
    LET title == IF Truthy(action.title) THEN Strip(action.title.v) ELSE <<>>
    IN  IF Len(title) > MaxTitleLen
        THEN RStripSet(Slice(title, 0, MaxTitleLen), Whitespace)
        ELSE title

RECURSIVE Dedupe(_)
\* list(dict.fromkeys(l))
Dedupe(l) ==
    IF l = <<>> THEN <<>>
    ELSE LET init == Dedupe(SubSeq(l, 1, Len(l) - 1))
         IN  IF InList(l[Len(l)], init) THEN init ELSE Append(init, l[Len(l)])

\* tags: a list of strings without repetitions
FixTags(action) ==
    IF ~Truthy(action.tags) THEN <<>>
    ELSE IF action.tags.t # "list" THEN <<action.tags.v>>
    ELSE Dedupe(action.tags.v)

\* due_raw with the ownership check left out
FixDueRaw_NoOwnerCheck(action, a_type, context_text, uc) ==
    IF Truthy(action.due_raw) /\ Strip(action.due_raw.v) # <<>>
    THEN PyStr(Strip(action.due_raw.v))
    ELSE PyNone

\* due_raw: stripped, None when empty; outside FOLLOW_UP it is kept only if
\* _is_due_for_user attributes it to the recipient
FixDueRaw(action, a_type, context_text, uc) ==
    LET due_raw == IF Truthy(action.due_raw) THEN Strip(action.due_raw.v) ELSE <<>>
    IN  IF due_raw = <<>> THEN PyNone
        ELSE IF a_type # "FOLLOW_UP" /\ ~IsDueForUser(context_text, due_raw, uc)
        THEN PyNone
        ELSE PyStr(due_raw)

ValidateAndFixAction(result, context_text, hints, policy_signals, uc) ==
    IF result.t # "dict"
    THEN [t |-> "ok", is_action |-> FALSE, policy_decision |-> "none",
          action |-> PyNone]
    ELSE IF ValidateRaises(result) THEN [t |-> "raise"]
    ELSE
    LET action == IF Truthy(result.action) THEN result.action ELSE EmptyAction
        policy == IF Truthy(result.policy_decision) THEN result.policy_decision.v
                  ELSE policy_signals.policy_decision
        a_type == IF policy_signals.self_sent THEN "FOLLOW_UP" ELSE CoerceType(action)
        is_action == IF policy_signals.self_sent THEN TRUE
                     ELSE Truthy(result.is_action)
    IN  IF a_type = "NONE"
        THEN [t |-> "ok", is_action |-> FALSE, policy_decision |-> policy,
              action |-> PyNone]
        ELSE [t |-> "ok", is_action |-> is_action, policy_decision |-> policy,
              action |->
                  [t |-> "dict",
                   type |-> a_type,
                   title |-> FixTitle(action),
                   assignee_candidates |->
                       IF Truthy(action.assignee_candidates)
                       THEN action.assignee_candidates.v ELSE <<>>,
                   due_raw |-> FixDueRaw(action, a_type, context_text, uc),
                   priority |-> IF Truthy(action.priority) THEN action.priority.v
                                ELSE "Medium",
                   tags |-> FixTags(action),
                   rationale |-> action.rationale.v]]

\* ------------------------------------------------------------------------
\* State
\* ------------------------------------------------------------------------
VARIABLES
    pc,         \* position of the operation under check: "start" or "done"
    body,       \* the text handed to _get_self_mention_segments
    max_chars,  \* its max_chars argument
    max_lines,  \* its max_lines argument
    segs,       \* the list it returns
    email,      \* the raw email record handed to analyze_with_policy_engine
    uctx,       \* the recipient context handed to it
    signals,    \* the policy signals it returns
    result,     \* the parsed completion handed to _validate_and_fix_action
    context_text, \* the text its due date is checked against
    out,        \* what _validate_and_fix_action returns
    idx,        \* extract_actions_with_llm: 1-based position of its segment loop
    tried_any,  \* its tried_any flag
    calls,      \* the completion calls it has made so far, in order
    ret,        \* what it returned
    raw_action, \* the validated result handed to normalize_action
    email_data, \* the standardized email handed to it
    clock,      \* what datetime.now(kst) reads during the call
    fuzzy,      \* what dateutil's fuzzy parse makes of the due phrase
    completion, \* what the completion service answers to the deadline prompt
    default_confidence, \* self.default_confidence, in hundredths
    llm_calls,  \* the deadline prompts sent to the completion service, in order
    normalized, \* what normalize_action returns
    action_result, \* the record behind raw_action as the caller holds it after the call
    full_text,  \* the text handed to create_text_chunks
    chunk_size, \* its chunk_size argument
    overlap,    \* its overlap argument
    chunks,     \* the list it returns
    span_start, \* `start` of its while loop
    raw_doc_id, \* the key handed to _sanitize_document_key
    doc_id,     \* the key it returns
    digest,     \* hashlib.md5(key).hexdigest()[:8] for the keys it is handed
    mention,    \* the mention handed to _is_self_mention_text
    is_self,    \* what it returns
    emails,     \* process_emails: the items of the input file
    handled,    \* the number of items its loop has gone through
    stats,      \* its run statistics
    search_index, \* the documents of the search index, by key
    actions_table, \* the entities of the Actions table, by RowKey
    last,       \* what the latest iteration of the loop did
    hint_text,  \* the text handed to _pre_extract_deadlines
    max_items,  \* its max_items argument
    hints       \* the list it returns

normVars == <<raw_action, email_data, clock, fuzzy, completion,
              default_confidence, llm_calls, normalized, action_result>>

chunkVars == <<full_text, chunk_size, overlap, chunks, span_start>>
keyVars == <<raw_doc_id, doc_id, digest>>
mentionVars == <<mention, is_self>>
batchVars == <<emails, handled, stats, search_index, actions_table, last>>
hintVars == <<hint_text, max_items, hints>>
indexVars == <<chunkVars, keyVars, mentionVars, batchVars, hintVars>>

laterVars == <<normVars, indexVars>>

earlierVars == <<body, max_chars, max_lines, segs, email, uctx, signals,
                 result, context_text, out, idx, tried_any, calls, ret>>

vars == <<pc, earlierVars, laterVars>>

\* the parts of the state an operation does not use
SegIdle == body = <<>> /\ max_chars = 0 /\ max_lines = 0 /\ segs = <<>>
ValidateIdle == result = <<>> /\ context_text = <<>> /\ out = <<>>
ExtractIdle == idx = 0 /\ tried_any = FALSE /\ calls = <<>> /\ ret = <<>>
PolicyIdle == email = <<>> /\ uctx = <<>> /\ signals = <<>>
NormIdle ==
    /\ raw_action = <<>> /\ email_data = <<>> /\ clock = <<>> /\ fuzzy = <<>>
    /\ completion = <<>> /\ default_confidence = 0 /\ llm_calls = <<>>
    /\ normalized = <<>> /\ action_result = <<>>
ChunkIdle ==
    /\ full_text = <<>> /\ chunk_size = 0 /\ overlap = 0 /\ chunks = <<>>
    /\ span_start = 0
KeyIdle == raw_doc_id = <<>> /\ doc_id = <<>> /\ digest = <<>>
MentionIdle == mention = <<>> /\ is_self = FALSE
BatchIdle ==
    /\ emails = <<>> /\ handled = 0 /\ stats = <<>> /\ search_index = <<>>
    /\ actions_table = <<>> /\ last = <<>>
HintIdle == hint_text = <<>> /\ max_items = 0 /\ hints = <<>>
IndexIdle ==
    ChunkIdle /\ KeyIdle /\ MentionIdle /\ BatchIdle /\ HintIdle
LaterIdle == NormIdle /\ IndexIdle
EarlierIdle == SegIdle /\ PolicyIdle /\ ValidateIdle /\ ExtractIdle

\* ------------------------------------------------------------------------
\* Bodies: concatenations of at most MaxPieces pieces
\* ------------------------------------------------------------------------
\* n characters of prose: a word character, a space, word characters
Pad(n) == [k \in 1..n |-> IF k = 2 THEN " " ELSE "w"]

SegPieces == {<<"@", "m">>, <<"@", "o">>, <<" ">>, <<"\n">>, Pad(30), Pad(60)}

RECURSIVE Concat(_)
Concat(ps) == IF ps = <<>> THEN <<>> ELSE Head(ps) \o Concat(Tail(ps))

TextsOf(pieces, n) ==
    {Concat(ps) : ps \in UNION {[1..k -> pieces] : k \in 0..n}}

\* preprocess_email strips the body (body.strip()) before the pipeline uses it
SegTexts == {t \in TextsOf(SegPieces, MaxPieces) : Strip(t) = t}

\* ------------------------------------------------------------------------
\* Specification of the segmenter
\* ------------------------------------------------------------------------
InitSeg ==
    /\ pc = "start"
    /\ body \in SegTexts
    /\ max_chars \in {20, DefaultMaxChars}
    /\ max_lines \in {1, DefaultMaxLines}
    /\ segs = <<>>
    /\ uctx = UserContext
    /\ email = <<>>
    /\ signals = <<>>
    /\ ValidateIdle
    /\ ExtractIdle
    /\ LaterIdle

RunSegmenter ==
    /\ pc = "start"
    /\ segs' = GetSelfMentionSegments(body, uctx, max_chars, max_lines)
    /\ pc' = "done"
    /\ UNCHANGED <<body, max_chars, max_lines, email, uctx, signals>>
    /\ UNCHANGED <<result, context_text, out, idx, tried_any, calls, ret>>
    /\ UNCHANGED laterVars

NextSeg == RunSegmenter

SpecSeg == InitSeg /\ [][NextSeg]_vars

\* ------------------------------------------------------------------------
\* Claims about the segmenter
\* ------------------------------------------------------------------------
ConsecutiveSegs == {k \in 1..Len(segs) : k + 1 <= Len(segs)}

\* C1 (as stated): any two consecutive returned segments (s1,e1), (s2,e2)
\* satisfy e1 <= s2, i.e. the segments never overlap (stated for the default
\* limits, the ones the pipeline calls the segmenter with).
C1_NonOverlapping ==
    (pc = "done" /\ max_chars = DefaultMaxChars /\ max_lines = DefaultMaxLines) =>
        \A k \in ConsecutiveSegs : segs[k].end <= segs[k + 1].start

\* C1 (amended): consecutive returned segments are in document order and
\* overlap by at most the backoff: s1 <= s2 and e1 <= s2 + BACKOFF; e1 never
\* passes the first mention of the second segment's cluster.
C1_OverlapAtMostBackoff ==
    pc = "done" =>
        \A k \in ConsecutiveSegs :
            /\ segs[k].start <= segs[k + 1].start
            /\ segs[k].end <= segs[k + 1].start + BACKOFF
            /\ segs[k].end <= segs[k + 1].cluster_start

\* two consecutive self clusters whose segments share text, the second one
\* starting inside the body
C1_Witness ==
    /\ pc = "done"
    /\ max_chars = DefaultMaxChars
    /\ max_lines = DefaultMaxLines
    /\ Len(segs) >= 2
    /\ segs[2].start > 0
    /\ segs[1].end > segs[2].start

\* C2: every emitted segment contains, inside its (start, end) span and its
\* text, a mention of the cluster that triggered it (stated for the default
\* limits, the ones the pipeline calls the segmenter with).
C2_SegmentContainsMention ==
    (pc = "done" /\ max_chars = DefaultMaxChars /\ max_lines = DefaultMaxLines) =>
        \A k \in 1..Len(segs) :
            /\ segs[k].text = Slice(body, segs[k].start, segs[k].end)
            /\ segs[k].start <= segs[k].cluster_start
            /\ segs[k].first_end <= segs[k].end

\* ------------------------------------------------------------------------
\* Specification of the policy engine
\* ------------------------------------------------------------------------
MaxBodyPieces == 3

Me == <<"m", "@", "d">>
Other == <<"o", "@", "d">>

PolicyPieces == {<<"@", "m">>, <<"@", "o">>, <<" ">>, <<"bu", "tak">>, <<"t">>}

PolicyBodies == {PyStr(t) : t \in TextsOf(PolicyPieces, MaxBodyPieces)} \cup {PyInt}

PolicyEmails ==
    [from_address : {PyStr(Me), PyStr(Other), PyInt},
     to_addresses : {PyList(<<>>), PyList(<<Me>>), PyList(<<Other, Me>>), PyNone},
     cc_addresses : {PyList(<<>>), PyList(<<Me>>), PyNone},
     email_body   : PolicyBodies]

PolicyContexts ==
    [name : {<<"m">>}, email : {Me}, team : {PyStr(<<"t">>), PyStr(<<>>), PyInt}]

InitPolicy ==
    /\ pc = "start"
    /\ email \in PolicyEmails
    /\ uctx \in PolicyContexts
    /\ signals = <<>>
    /\ SegIdle
    /\ ValidateIdle
    /\ ExtractIdle
    /\ LaterIdle

RunPolicyEngine ==
    /\ pc = "start"
    /\ signals' = AnalyzeWithPolicyEngine(email, uctx)
    /\ pc' = "done"
    /\ UNCHANGED <<email, uctx, body, max_chars, max_lines, segs>>
    /\ UNCHANGED <<result, context_text, out, idx, tried_any, calls, ret>>
    /\ UNCHANGED laterVars

NextPolicy == RunPolicyEngine

SpecPolicy == InitPolicy /\ [][NextPolicy]_vars

\* ------------------------------------------------------------------------
\* Claims about the policy engine
\* ------------------------------------------------------------------------
\* C5: analyze_with_policy_engine is total: for every combination of the
\* signals it returns exactly one policy_decision of {A, B, C, D, none}, and
\* no exception leaves it.
C5_PolicyTotal ==
    pc = "done" => signals.policy_decision \in {"A", "B", "C", "D", "none"}

\* a run in which the decision block raised (a team that is not a string is
\* searched in the body) and the engine still returned
C5_Witness ==
    /\ pc = "done"
    /\ signals.to_contains_self
    /\ ~signals.request_detected
    /\ uctx.team = PyInt
    /\ signals.policy_decision = "none"

\* the rows of the decision table of the policy engine, as the table states them
HasRecipientMention ==
    \E k \in 1..Len(signals.mentions) :
        Contains(signals.mentions[k], <<"@">> \o uctx.name)
OnlyRecipientMentions ==
    \A k \in 1..Len(signals.mentions) : signals.mentions[k] = <<"@">> \o uctx.name
RowA ==
    /\ signals.to_contains_self /\ signals.request_detected
    /\ (OnlyRecipientMentions \/ HasRecipientMention)
RowBtoA ==
    signals.cc_contains_self /\ ~signals.to_contains_self /\ HasRecipientMention
RowB ==
    signals.cc_contains_self /\ ~signals.to_contains_self /\ ~HasRecipientMention
RowC == signals.self_sent /\ signals.request_detected
TeamInBody ==
    /\ uctx.team.t = "str" /\ uctx.team.v # <<>>
    /\ email.email_body.t = "str" /\ Contains(email.email_body.v, uctx.team.v)

\* C6: when toContainsSelf and requestDetected hold, the team name appears in
\* the body and none of the rows A, B->A, B, C matches, the decision is D.
C6_TeamRequestIsD ==
    (/\ pc = "done"
     /\ signals.to_contains_self /\ signals.request_detected /\ TeamInBody
     /\ ~RowA /\ ~RowBtoA /\ ~RowB /\ ~RowC)
        => signals.policy_decision = "D"

\* C7: whenever selfSent and requestDetected hold and none of the rows A,
\* B->A, B matches, the decision is C, whatever the other signals are
\* (stated for a recipient context whose fields are strings).
C7_SelfSentRequestIsC ==
    (/\ pc = "done"
     /\ uctx.team.t = "str"
     /\ signals.self_sent /\ signals.request_detected
     /\ ~RowA /\ ~RowBtoA /\ ~RowB)
        => signals.policy_decision = "C"

\* ------------------------------------------------------------------------
\* Specification of validate-and-fix
\* ------------------------------------------------------------------------
MaxDuePieces == 2

\* "nae-il-kka-ji" (by tomorrow), the deadline phrase of the model's texts
DuePhrase == <<"nae", "il", "kka", "ji">>

Subject == <<"w">>

DuePieces == {<<"@", "m">>, <<"@", "o">>, <<" ">>, <<"\n">>, DuePhrase, <<"m">>}

\* f"{full_subject}\n\n{seg_text}"
ContextOf(subject, seg_text) == subject \o <<"\n", "\n">> \o seg_text

ValidateContexts == {ContextOf(Subject, t) : t \in TextsOf(DuePieces, MaxDuePieces)}

ModelDueRaws ==
    {PyNone, PyStr(<<>>), PyStr(DuePhrase), PyStr(<<" ">> \o DuePhrase \o <<" ">>),
     PyStr(<<"kka", "ji">>), PyInt}

ModelTypes ==
    {PyNone, PySym("DO"), PySym("do"), PySym("FOLLOW_UP"), PySym("NONE"),
     PySym("TASK"), PyInt}

ModelTitles ==
    {PyNone, PyStr(<<" ", "w", " ">>), PyStr(Pad(21)), PyStr(Pad(20) \o <<" ", "w">>)}

\* completions that vary in what decides the action: is_action, type, due_raw
CoreActions ==
    [t : {"dict"}, type : ModelTypes, title : {PyStr(<<"w">>)},
     priority : {PySym("High")}, tags : {PyList(<<"a">>)},
     assignee_candidates : {PyList(<<"o@d">>)}, due_raw : ModelDueRaws,
     rationale : {PySym("")}]

\* completions that vary in the remaining fields
ShapeActions ==
    [t : {"dict"}, type : {PySym("DO")}, title : ModelTitles,
     priority : {PyNone, PySym("Low")},
     tags : {PyNone, PySym("a"), PyList(<<"a", "b", "a">>)},
     assignee_candidates : {PyNone}, due_raw : {PyNone},
     rationale : {PySym("why")}]

ModelResults ==
    {PyNone, PyList(<<>>), PyInt}
    \cup [t : {"dict"}, is_action : {PyBool(TRUE), PyBool(FALSE), PyNone},
          policy_decision : {PyNone}, action : CoreActions]
    \cup [t : {"dict"}, is_action : {PyBool(TRUE)},
          policy_decision : {PyNone, PySym("B")},
          action : ShapeActions \cup {PyNone, PySym("x")}]

\* the recipient context in the shape the policy engine reads
PolicyContextOf(uc) == [name |-> uc.name, email |-> uc.email, team |-> PyStr(uc.team)]

\* policy signals of a request the recipient received, of one the recipient
\* sent, and of a mail that concerns someone else
SampleSignals ==
    {AnalyzeWithPolicyEngine(
         [from_address |-> PyStr(f), to_addresses |-> PyList(<<to>>),
          cc_addresses |-> PyList(<<>>), email_body |-> PyStr(<<"bu", "tak">>)],
         PolicyContextOf(UserContext)) :
        f \in {Me, Other}, to \in {Me, Other}}

InitValidate ==
    /\ pc = "start"
    /\ result \in ModelResults
    /\ context_text \in ValidateContexts
    /\ signals \in SampleSignals
    /\ uctx = UserContext
    /\ out = <<>>
    /\ email = <<>>
    /\ SegIdle
    /\ ExtractIdle
    /\ LaterIdle

RunValidate ==
    /\ pc = "start"
    /\ out' = ValidateAndFixAction(result, context_text, <<>>, signals, uctx)
    /\ pc' = "done"
    /\ UNCHANGED <<result, context_text, signals, uctx, email>>
    /\ UNCHANGED <<body, max_chars, max_lines, segs, idx, tried_any, calls, ret>>
    /\ UNCHANGED laterVars

NextValidate == RunValidate

SpecValidate == InitValidate /\ [][NextValidate]_vars

\* ------------------------------------------------------------------------
\* Claims about validate-and-fix
\* ------------------------------------------------------------------------
\* C3: when the policy signals have self_sent = true, the result of
\* validate-and-fix has is_action = true and action.type = FOLLOW_UP, for
\* every parsed JSON value handed to it (stated for the calls that return).
C3_SelfSentIsFollowUp ==
    (pc = "done" /\ signals.self_sent /\ out.t = "ok") =>
        /\ out.is_action
        /\ out.action.t = "dict"
        /\ out.action.type = "FOLLOW_UP"

\* the model's due_raw as a string with something in it, PyNone otherwise
ModelDueRaw ==
    IF result.t = "dict" /\ Truthy(result.action) /\ result.action.t = "dict"
    THEN result.action.due_raw
    ELSE PyNone

HasAction == pc = "done" /\ out.t = "ok" /\ out.action.t = "dict"

\* C4 (as stated): a due_raw left on an action that is not FOLLOW_UP is one
\* that _is_due_for_user attributes to the recipient, and for FOLLOW_UP the
\* model's due_raw is kept unchanged.
C4_DueOwnedOrUnchanged ==
    HasAction =>
        /\ (out.action.type # "FOLLOW_UP" /\ out.action.due_raw # PyNone)
               => IsDueForUser(context_text, out.action.due_raw.v, uctx)
        /\ (out.action.type = "FOLLOW_UP" /\ Truthy(ModelDueRaw)
                /\ Strip(ModelDueRaw.v) # <<>>)
               => out.action.due_raw = ModelDueRaw

\* C4 (amended): a due_raw left on an action that is not FOLLOW_UP is one
\* that _is_due_for_user attributes to the recipient; for FOLLOW_UP the
\* model's due_raw is kept with its surrounding whitespace stripped (None when
\* nothing is left), whatever _is_due_for_user says about it.
C4_DueOwnedOrStripped ==
    HasAction =>
        /\ (out.action.type # "FOLLOW_UP" /\ out.action.due_raw # PyNone)
               => IsDueForUser(context_text, out.action.due_raw.v, uctx)
        /\ out.action.type = "FOLLOW_UP"
               => out.action.due_raw =
                      (IF Truthy(ModelDueRaw) /\ Strip(ModelDueRaw.v) # <<>>
                       THEN PyStr(Strip(ModelDueRaw.v)) ELSE PyNone)

\* a DO action whose due_raw another person owns lost it, and a FOLLOW_UP
\* action kept a due_raw the recipient does not own
C4_Witness ==
    /\ HasAction
    /\ Truthy(ModelDueRaw)
    /\ ~IsDueForUser(context_text, Strip(ModelDueRaw.v), uctx)
    /\ Find(context_text, Strip(ModelDueRaw.v)) >= 0
    /\ out.action.type = "FOLLOW_UP"
    /\ out.action.due_raw = PyStr(Strip(ModelDueRaw.v))

\* ------------------------------------------------------------------------
\* EmailProcessor.extract_actions_with_llm
\* ------------------------------------------------------------------------
MaxExtractPieces == 5

\* what one chat.completions.create call and the parse of its answer give:
\* the call raises, the answer is not JSON (json.loads raises), or a value
Completion_Error == [t |-> "error"]
Completion_Malformed == [t |-> "malformed"]
Completion_Json(v) == [t |-> "json", v |-> v]

\* the call, the parse and _postfix of one attempt: the validated result
\* (t = "ok"), or the exception raised inside the try block
AttemptOutcome(resp, ctx, policy_signals, uc) ==
    IF resp.t = "json"
    THEN ValidateAndFixAction(resp.v, ctx, <<>>, policy_signals, uc)
    ELSE [t |-> resp.t]

\* `except Exception` with only the transport error caught
Caught_OnlyTransport(outcome) == outcome.t = "error"

\* `except Exception`: what the except clauses of the function catch
Caught(outcome) == outcome.t \in {"error", "malformed", "raise"}

\* the early return of the loop never taken
SegmentSucceeded_Never(outcome) == FALSE

\* if result.get("is_action") and result.get("action")
SegmentSucceeded(outcome) ==
    outcome.t = "ok" /\ outcome.is_action /\ outcome.action.t = "dict"

\* the return after a loop that tried segments and got no action
ExhaustedResult(policy_signals) ==
    [t |-> "ok", is_action |-> FALSE,
     policy_decision |-> policy_signals.policy_decision, action |-> PyNone]

\* the return of the except clause of the fallback
FallbackFailure ==
    [t |-> "ok", is_action |-> FALSE, policy_decision |-> "none", action |-> PyNone]

ExtractPieces == {<<"@", "m">>, <<"@", "o">>, <<"\n">>, <<"w">>}

ExtractBodies == {t \in TextsOf(ExtractPieces, MaxExtractPieces) : Strip(t) = t}

ActionOfType(type) ==
    [t |-> "dict", type |-> type, title |-> PyStr(<<"w">>), priority |-> PyNone,
     tags |-> PyNone, assignee_candidates |-> PyNone, due_raw |-> PyNone,
     rationale |-> PySym("")]

ResultOf(is_action, action) ==
    [t |-> "dict", is_action |-> is_action, policy_decision |-> PyNone,
     action |-> action]

Completions ==
    {Completion_Error, Completion_Malformed,
     Completion_Json(PyInt),
     Completion_Json(ResultOf(PyBool(TRUE), ActionOfType(PySym("DO")))),
     Completion_Json(ResultOf(PyBool(FALSE), ActionOfType(PySym("DO")))),
     Completion_Json(ResultOf(PyBool(TRUE), ActionOfType(PySym("NONE")))),
     Completion_Json(ResultOf(PyBool(TRUE), PySym("x")))}

ExtractSignals == {sg \in SampleSignals : ~sg.to_contains_self}

InitExtract ==
    /\ pc = "start"
    /\ body \in ExtractBodies
    /\ signals \in ExtractSignals
    /\ uctx = UserContext
    /\ max_chars = DefaultMaxChars
    /\ max_lines = DefaultMaxLines
    /\ segs = <<>>
    /\ email = <<>>
    /\ ValidateIdle
    /\ ExtractIdle
    /\ LaterIdle

ExtractFrame == UNCHANGED <<body, max_chars, max_lines, email, uctx, signals,
                            result, context_text, out, laterVars>>

\* segments = self._get_self_mention_segments(full_body, user_context)
ExtractStart ==
    /\ pc = "start"
    /\ segs' = GetSelfMentionSegments(body, uctx, max_chars, max_lines)
    /\ idx' = 1
    /\ pc' = "loop"
    /\ UNCHANGED <<tried_any, calls, ret>>
    /\ ExtractFrame

\* one iteration of the segment loop
TrySegment ==
    /\ pc = "loop"
    /\ idx <= Len(segs)
    /\ \E resp \in Completions :
          LET o == AttemptOutcome(resp, ContextOf(Subject, segs[idx].text),
                                  signals, uctx)
          IN  /\ calls' = Append(calls, [kind |-> "segment", idx |-> idx,
                                         text |-> segs[idx].text, outcome |-> o])
              /\ IF o.t # "ok" /\ ~Caught(o)
                 THEN pc' = "done" /\ ret' = [t |-> "raise"] /\ idx' = idx
                 ELSE IF SegmentSucceeded(o)
                 THEN pc' = "done" /\ ret' = o /\ idx' = idx
                 ELSE pc' = "loop" /\ ret' = ret /\ idx' = idx + 1
    /\ tried_any' = TRUE
    /\ UNCHANGED segs
    /\ ExtractFrame

\* if not tried_any: the one call over the entire body
TryFallback ==
    /\ pc = "loop"
    /\ idx > Len(segs)
    /\ ~tried_any
    /\ \E resp \in Completions :
          LET o == AttemptOutcome(resp, ContextOf(Subject, body), signals, uctx)
          IN  /\ calls' = Append(calls, [kind |-> "fallback", idx |-> 0,
                                         text |-> body, outcome |-> o])
              /\ ret' = IF o.t = "ok" THEN o
                        ELSE IF Caught(o) THEN FallbackFailure
                        ELSE [t |-> "raise"]
    /\ pc' = "done"
    /\ UNCHANGED <<segs, idx, tried_any>>
    /\ ExtractFrame

\* segments were tried and none gave an action
ReturnNoAction ==
    /\ pc = "loop"
    /\ idx > Len(segs)
    /\ tried_any
    /\ ret' = ExhaustedResult(signals)
    /\ pc' = "done"
    /\ UNCHANGED <<segs, idx, tried_any, calls>>
    /\ ExtractFrame

NextExtract == ExtractStart \/ TrySegment \/ TryFallback \/ ReturnNoAction

SpecExtract == InitExtract /\ [][NextExtract]_vars

\* ------------------------------------------------------------------------
\* Claims about extract_actions_with_llm
\* ------------------------------------------------------------------------
SegmentCalls == {k \in 1..Len(calls) : calls[k].kind = "segment"}
FallbackCalls == {k \in 1..Len(calls) : calls[k].kind = "fallback"}
Failed(k) == calls[k].outcome.t # "ok"

\* C8: when at least one segment exists and no segment's validated result has
\* is_action = true, exactly one fallback completion call is made over the
\* entire body and its validated result is what is returned.
C8_FallbackAfterSegments ==
    (/\ pc = "done"
     /\ segs # <<>>
     /\ \A k \in SegmentCalls : ~SegmentSucceeded(calls[k].outcome))
        => /\ Cardinality(FallbackCalls) = 1
           /\ calls[Len(calls)].kind = "fallback"
           /\ calls[Len(calls)].text = body

\* C9: segments are tried strictly in document order, and the validated
\* result of the first segment whose result has is_action = true and a
\* non-null action is returned; no completion call follows that segment.
C9_FirstSuccessReturned ==
    /\ \A k \in SegmentCalls :
          /\ calls[k].idx = k
          /\ calls[k].text = segs[k].text
    /\ \A k \in SegmentCalls :
          (calls[k].outcome.t = "ok" /\ calls[k].outcome.is_action
              /\ calls[k].outcome.action # PyNone)
          => /\ k = Len(calls)
             /\ pc = "done"
             /\ ret = calls[k].outcome

\* the second of three segments gave the action: the first was tried before
\* it and the third never
C9_Witness ==
    /\ pc = "done"
    /\ Len(segs) >= 3
    /\ Len(calls) = 2
    /\ ~SegmentSucceeded(calls[1].outcome)
    /\ SegmentSucceeded(calls[2].outcome)
    /\ ret = calls[2].outcome

\* C10: a failed extraction call never propagates and is never retried: each
\* segment causes at most one call, after a failed segment the next one is
\* tried (or, after the last, "no action" is returned), and a failure on the
\* segment-less fallback path returns is_action = false with action = null.
C10_FailureIsolated ==
    /\ ret # [t |-> "raise"]
    /\ \A k, j \in SegmentCalls : calls[k].idx = calls[j].idx => k = j
    /\ Len(calls) <= Max(1, Len(segs))
    /\ \A k \in SegmentCalls :
          Failed(k) =>
              \/ Len(calls) > k /\ calls[k + 1].kind = "segment"
                               /\ calls[k + 1].idx = calls[k].idx + 1
              \/ Len(calls) = k /\ pc = "loop" /\ idx = k + 1
              \/ Len(calls) = k /\ pc = "done" /\ k = Len(segs)
                               /\ ret = ExhaustedResult(signals)
    /\ \A k \in FallbackCalls :
          Failed(k) => pc = "done" /\ segs = <<>> /\ ~ret.is_action
                           /\ ret.action = PyNone

\* a segment whose validation raised was followed by a call on the next
\* segment, and a run without segments whose fallback call failed
C10_Witness ==
    /\ pc = "done"
    /\ Len(calls) >= 2
    /\ calls[1].outcome.t = "raise"
    /\ calls[2].kind = "segment"

\* ------------------------------------------------------------------------
\* Dates and times (datetime.date, datetime.datetime, ZoneInfo("Asia/Seoul"))
\* ------------------------------------------------------------------------
Digits == <<"0", "1", "2", "3", "4", "5", "6", "7", "8", "9">>
DigitSet == {Digits[k] : k \in 1..10}
IsDigit(c) == c \in DigitSet
DigitVal(c) == (CHOOSE k \in 1..10 : Digits[k] = c) - 1

\* int(s) for a run of digits
RECURSIVE IntOf(_)
IntOf(s) == IF s = <<>> THEN 0
            ELSE (10 * IntOf(SubSeq(s, 1, Len(s) - 1))) + DigitVal(s[Len(s)])

\* "%02d" and "%04d"
Pad2(n) == <<Digits[((n \div 10) % 10) + 1], Digits[(n % 10) + 1]>>
Pad4(n) == Pad2(n \div 100) \o Pad2(n % 100)

IsLeap(y) == (y % 4) = 0 /\ ((y % 100) # 0 \/ (y % 400) = 0)
DaysInMonth(y, m) ==
    IF m = 2 THEN (IF IsLeap(y) THEN 29 ELSE 28)
    ELSE IF m \in {4, 6, 9, 11} THEN 30 ELSE 31

\* datetime(y, m, d) raises ValueError outside these ranges
ValidDate(y, m, d) ==
    /\ y \in 1..9999
    /\ m \in 1..12
    /\ d \in 1..DaysInMonth(y, m)

\* dt_time(hour, minute) raises ValueError outside these ranges
ValidTime(hour, minute) == hour \in 0..23 /\ minute \in 0..59

RECURSIVE DaysBeforeMonth(_, _)
DaysBeforeMonth(y, m) ==
    IF m = 1 THEN 0 ELSE DaysBeforeMonth(y, m - 1) + DaysInMonth(y, m - 1)

DaysBeforeYear(y) ==
    ((y - 1) * 365) + ((y - 1) \div 4) - ((y - 1) \div 100) + ((y - 1) \div 400)

\* date.toordinal(): 0001-01-01 is day 1
ToOrdinal(dt) == DaysBeforeYear(dt.y) + DaysBeforeMonth(dt.y, dt.m) + dt.d

\* the year that holds day n, and the month of year y that holds its day r
YearOfOrdinal(n) ==
    CHOOSE yy \in ((n \div 366))..((n \div 365) + 1) :
        yy >= 1 /\ DaysBeforeYear(yy) < n /\ n <= DaysBeforeYear(yy + 1)
MonthOfDay(y, r) ==
    CHOOSE mm \in 1..12 :
        DaysBeforeMonth(y, mm) < r /\ r <= DaysBeforeMonth(y, mm) + DaysInMonth(y, mm)

DateInMonth(y, m, r) == [y |-> y, m |-> m, d |-> r - DaysBeforeMonth(y, m)]
DateInYear(y, r) == DateInMonth(y, MonthOfDay(y, r), r)
DateOfOrdinal(y, n) == DateInYear(y, n - DaysBeforeYear(y))

\* date.fromordinal()
FromOrdinal(n) == DateOfOrdinal(YearOfOrdinal(n), n)

\* date + timedelta(days = k)
AddDays(dt, k) == FromOrdinal(ToOrdinal(dt) + k)

\* date.weekday(): Monday is 0
Weekday(dt) == (ToOrdinal(dt) + 6) % 7

\* the offset of Asia/Seoul from UTC, in minutes (no daylight saving time
\* in the years of the model)
KstOffset == 540

\* a datetime as minutes since 0001-01-01 00:00 of its own zone, and back
ToMinutes(dt) == ((ToOrdinal(dt) - 1) * 1440) + (dt.hour * 60) + dt.minute
AtTime(day, hour, minute) ==
    [y |-> day.y, m |-> day.m, d |-> day.d, hour |-> hour, minute |-> minute]
FromMinutes(n) == AtTime(FromOrdinal((n \div 1440) + 1), (n % 1440) \div 60, n % 60)

\* datetime.combine(date, dt_time(hour, minute, tzinfo = kst))
Combine(dt, hour, minute) == AtTime(dt, hour, minute)

DateOf(dt) == [y |-> dt.y, m |-> dt.m, d |-> dt.d]

\* the conversion with the offset added instead of taken away
KstToUtc_Ahead(dt) == FromMinutes(ToMinutes(dt) + KstOffset)

\* due_kst.astimezone(timezone.utc)
KstToUtc(dt) == FromMinutes(ToMinutes(dt) - KstOffset)

\* tmp.astimezone(kst) for a datetime at `offset` minutes from UTC
ToKst(dt, offset) == FromMinutes(ToMinutes(dt) - offset + KstOffset)

\* due_kst.strftime("%Y-%m-%d %H:%M KST")
FormatKst(dt) ==
    Pad4(dt.y) \o <<"-">> \o Pad2(dt.m) \o <<"-">> \o Pad2(dt.d) \o <<" ">>
    \o Pad2(dt.hour) \o <<":">> \o Pad2(dt.minute) \o <<" ", "K", "S", "T">>

\* datetime.isoformat() of a UTC datetime with zero seconds
FormatUtcIso(dt) ==
    Pad4(dt.y) \o <<"-">> \o Pad2(dt.m) \o <<"-">> \o Pad2(dt.d) \o <<"T">>
    \o Pad2(dt.hour) \o <<":">> \o Pad2(dt.minute)
    \o <<":", "0", "0", "+", "0", "0", ":", "0", "0">>

\* ------------------------------------------------------------------------
\* The patterns of _resolve_relative_deadline, on a stripped due phrase.
\* Syllables of the phrases: "oh","neul" and "geum","il" (today),
\* "nae","il" and "myeong","il" (tomorrow), "mo","re" (the day after),
\* "oh","jeon" (AM), "oh","hu" (PM), "si" (hour), "bun" (minute),
\* "i","beon","ju" and "geum","ju" (this week), "da","eum","ju" and
\* "cha","ju" (next week), the weekdays "wol".."il", "yo","il" (day of the
\* week), "kka","ji" (until), "hu" and "dwi" (after).
\* ------------------------------------------------------------------------
\* the characters of the model that \w does not match
NonWordChars == {" ", "\n", "-", "/", ":", "~", "(", ")", ".", ",", "@"}

\* \b at 0-based offset i of text
WordBoundary(text, i) ==
    (i > 0 /\ text[i] \notin NonWordChars)
        # (i < Len(text) /\ text[i + 1] \notin NonWordChars)

\* the least element of a non-empty set of offsets
Least(S) == CHOOSE a \in S : \A b \in S : a <= b

\* 1-based positions of the "si" that ends the first match of
\* (AM|PM)?\s*(\d{1,2})si
TimeSiPositions(text) ==
    {i \in 2..Len(text) : text[i] = "si" /\ IsDigit(text[i - 1])}

\* the groups of the match whose "si" is at 1-based position i: its digits
\* start at k, j is the last position before the blanks that precede them
\* (0 when there is none), p the first position after the blanks behind "si"
TimeGroups(text, i, k, j, p) ==
    [found |-> TRUE,
     ampm |-> IF j >= 2 /\ text[j - 1] = "oh" /\ text[j] = "hu" THEN "PM"
              ELSE IF j >= 2 /\ text[j - 1] = "oh" /\ text[j] = "jeon" THEN "AM"
              ELSE "none",
     hh |-> IntOf(SubSeq(text, k, i - 1)),
     mm |-> IF p + 1 <= Len(text) /\ IsDigit(text[p]) /\ text[p + 1] = "bun"
            THEN IntOf(SubSeq(text, p, p))
            ELSE IF /\ p + 2 <= Len(text)
                    /\ IsDigit(text[p]) /\ IsDigit(text[p + 1])
                    /\ text[p + 2] = "bun"
            THEN IntOf(SubSeq(text, p, p + 1))
            ELSE -1]

LastBeforeBlanks(text, k) ==
    CHOOSE q \in 0..(k - 1) :
        /\ \A h \in (q + 1)..(k - 1) : text[h] \in Whitespace
        /\ q > 0 => text[q] \notin Whitespace

TimeGroupsFrom(text, i, k) ==
    TimeGroups(text, i, k, LastBeforeBlanks(text, k),
               ClassRunEnd(text, i, Whitespace) + 1)

TimeMatchAt(text, i) ==
    TimeGroupsFrom(text, i, IF i >= 3 /\ IsDigit(text[i - 2]) THEN i - 2 ELSE i - 1)

\* t = re.search(r"(AM|PM)?\s*(\d{1,2})si(?:\s*(\d{1,2})bun)?", text):
\* the groups of the leftmost match (mm = -1 for an unmatched group)
TimeMatch(text) ==
    IF TimeSiPositions(text) = {} THEN [found |-> FALSE]
    ELSE TimeMatchAt(text, Least(TimeSiPositions(text)))

\* hour and minute of the groups t, 18:00 without match
TimeOfGroups(t) ==
    IF ~t.found THEN [hour |-> 18, minute |-> 0]
    ELSE [hour |-> IF t.ampm = "PM" /\ t.hh < 12 THEN t.hh + 12
                   ELSE IF t.ampm = "AM" /\ t.hh = 12 THEN 0
                   ELSE t.hh,
          minute |-> IF t.mm = -1 THEN 0 ELSE t.mm]

\* hour and minute after lines 924-936
TimeOfDay(text) == TimeOfGroups(TimeMatch(text))

\* lines 942-947: the number of days the keyword adds, -1 without keyword
RelativeDays(text) ==
    IF Contains(text, <<"geum", "il">>) \/ Contains(text, <<"oh", "neul">>) THEN 0
    ELSE IF Contains(text, <<"myeong", "il">>) \/ Contains(text, <<"nae", "il">>)
    THEN 1
    ELSE IF Contains(text, <<"mo", "re">>) THEN 2
    ELSE -1

\* wd_map
WeekdayNames == <<"wol", "hwa", "su", "mok", "geum", "to", "il">>
WdMap(c) == (CHOOSE k \in 1..7 : WeekdayNames[k] = c) - 1
IsWeekdayName(c) == \E k \in 1..7 : WeekdayNames[k] = c

\* the 0-based offset after (?:a\s*ju|b ju) matched at offset p, -1 if none;
\* a is the two-syllable form, b the one-syllable form
WeekPrefixEnd(text, p, a, b) ==
    IF MatchAt(text, a, p)
       /\ MatchAt(text, <<"ju">>, ClassRunEnd(text, p + Len(a), Whitespace))
    THEN ClassRunEnd(text, p + Len(a), Whitespace) + 1
    ELSE IF MatchAt(text, b \o <<"ju">>, p) THEN p + Len(b) + 1
    ELSE -1

\* (weekday)yo(il)?\s*kka follows offset q
WeekdayAt(text, q) ==
    /\ q + 2 <= Len(text)
    /\ IsWeekdayName(text[q + 1])
    /\ text[q + 2] = "yo"
    /\ MatchAt(text, <<"kka">>,
               ClassRunEnd(text, IF MatchAt(text, <<"il">>, q + 2) THEN q + 3 ELSE q + 2,
                           Whitespace))

\* the rest of the pattern matches behind a week prefix that ends at e
WeekdayBehind(text, e) == e # -1 /\ WeekdayAt(text, ClassRunEnd(text, e, Whitespace))

\* prefix \s*(weekday)yo(il)?\s*kka(ji)? matches at offset p
WeekdayMatchAt(text, p, a, b) == WeekdayBehind(text, WeekPrefixEnd(text, p, a, b))

\* the weekday number named behind the week prefix that ends at e
WeekdayNamedAt(text, e) == WdMap(text[ClassRunEnd(text, e, Whitespace) + 1])

WeekdayOfLeast(text, starts, a, b) ==
    IF starts = {} THEN -1
    ELSE WeekdayNamedAt(text, WeekPrefixEnd(text, Least(starts), a, b))

\* group 1 of the leftmost match as a weekday number, -1 without match
WeekdayMatch(text, a, b) ==
    WeekdayOfLeast(text, {p \in 0..(Len(text) - 1) : WeekdayMatchAt(text, p, a, b)},
                   a, b)

ThisWeekMatch(text) == WeekdayMatch(text, <<"i", "beon">>, <<"geum">>)
NextWeekMatch(text) == WeekdayMatch(text, <<"da", "eum">>, <<"cha">>)

\* str.upper() on the letters of EOD and EOW
UpperChar(c) ==
    IF c = "e" THEN "E" ELSE IF c = "o" THEN "O" ELSE IF c = "d" THEN "D"
    ELSE IF c = "w" THEN "W" ELSE c

\* re.search(r"\bword\b", text, re.IGNORECASE)
WordSearch(text, word) ==
    \E p \in 0..(Len(text) - Len(word)) :
        /\ \A k \in 1..Len(word) : UpperChar(text[p + k]) = word[k]
        /\ WordBoundary(text, p)
        /\ WordBoundary(text, p + Len(word))

\* the number of digits that start at 0-based offset p, counted up to n
DigitRun(text, p, n) ==
    Least({k \in 0..n : k = n \/ p + k >= Len(text) \/ ~IsDigit(text[p + k + 1])})

\* (\d{4})-(\d{1,2})-(\d{1,2}) matches at offset p
IsoDateAt(text, p) ==
    /\ DigitRun(text, p, 4) = 4
    /\ MatchAt(text, <<"-">>, p + 4)
    /\ DigitRun(text, p + 5, 3) \in {1, 2}
    /\ MatchAt(text, <<"-">>, p + 5 + DigitRun(text, p + 5, 3))
    /\ DigitRun(text, p + 6 + DigitRun(text, p + 5, 3), 2) >= 1

\* the groups of the match at offset p whose month has n digits and whose
\* day starts at offset q
IsoDateGroups(text, p, n, q) ==
    [found |-> TRUE,
     y |-> IntOf(Slice(text, p, p + 4)),
     m |-> IntOf(Slice(text, p + 5, p + 5 + n)),
     d |-> IntOf(Slice(text, q, q + DigitRun(text, q, 2)))]

IsoDateWithMonth(text, p, n) == IsoDateGroups(text, p, n, p + 6 + n)
IsoDateFrom(text, p) == IsoDateWithMonth(text, p, DigitRun(text, p + 5, 3))
IsoDateOfLeast(text, starts) ==
    IF starts = {} THEN [found |-> FALSE] ELSE IsoDateFrom(text, Least(starts))

\* m = re.search(r"(\d{4})-(\d{1,2})-(\d{1,2})", text); map(int, m.groups())
IsoDateMatch(text) ==
    IsoDateOfLeast(text, {p \in 0..(Len(text) - 1) : IsoDateAt(text, p)})

\* \b(\d{1,2})/(\d{1,2})\b matches with its slash at offset p
SlashDateAt(text, p) ==
    /\ MatchAt(text, <<"/">>, p)
    /\ \E n \in {1, 2} :
          /\ p - n >= 0
          /\ DigitRun(text, p - n, n) = n
          /\ WordBoundary(text, p - n)
    /\ DigitRun(text, p + 1, 3) \in {1, 2}
    /\ WordBoundary(text, p + 1 + DigitRun(text, p + 1, 3))

\* the groups of the match with its slash at offset p and n digits before it
SlashDateGroups(text, p, n) ==
    [found |-> TRUE,
     m |-> IntOf(Slice(text, p - n, p)),
     d |-> IntOf(Slice(text, p + 1, p + 1 + DigitRun(text, p + 1, 3)))]

SlashDateFrom(text, p) ==
    SlashDateGroups(text, p,
                    IF p >= 2 /\ DigitRun(text, p - 2, 2) = 2
                       /\ WordBoundary(text, p - 2)
                    THEN 2 ELSE 1)

SlashDateOfLeast(text, slashes) ==
    IF slashes = {} THEN [found |-> FALSE] ELSE SlashDateFrom(text, Least(slashes))

\* m = re.search(r"\b(\d{1,2})/(\d{1,2})\b", text); map(int, m.groups())
SlashDateMatch(text) ==
    SlashDateOfLeast(text, {p \in 0..(Len(text) - 1) : SlashDateAt(text, p)})

\* il\s*(?:hu|dwi) starts at offset q
DaysSuffixAt(text, q) ==
    /\ MatchAt(text, <<"il">>, q)
    /\ \/ MatchAt(text, <<"hu">>, ClassRunEnd(text, q + 1, Whitespace))
       \/ MatchAt(text, <<"dwi">>, ClassRunEnd(text, q + 1, Whitespace))

\* (\d+)\s*il\s*(?:hu|dwi) matches with its run of digits ending before offset p
DaysAfterAt(text, p) ==
    /\ p > 0
    /\ IsDigit(text[p])
    /\ DaysSuffixAt(text, ClassRunEnd(text, p, Whitespace))

\* the number written by the run of digits that ends before offset e
DigitsEndingAt(text, e) ==
    IntOf(Slice(text,
                CHOOSE a \in 0..(e - 1) :
                    /\ \A k \in (a + 1)..e : IsDigit(text[k])
                    /\ a > 0 => ~IsDigit(text[a]),
                e))

DaysAfterOfLeast(text, ends) ==
    IF ends = {} THEN -1 ELSE DigitsEndingAt(text, Least(ends))

\* m = re.search(r"(\d+)\s*il\s*(?:hu|dwi)", text); int(m.group(1)); -1 if none
DaysAfterMatch(text) ==
    DaysAfterOfLeast(text, {p \in 1..Len(text) : DaysAfterAt(text, p)})

\* ------------------------------------------------------------------------
\* The reference time (lines 910-919)
\* ------------------------------------------------------------------------
AllDigits(s, a, b) == \A k \in a..b : IsDigit(s[k])

\* parser.parse(received_at_iso) on "YYYY-MM-DDTHH:MM:SS", alone, with "Z" or
\* with a "+HH:MM" / "-HH:MM" offset; anything else raises
ParseIso(s) ==
    IF /\ Len(s) \in {19, 20, 25}
       /\ AllDigits(s, 1, 4) /\ s[5] = "-" /\ AllDigits(s, 6, 7) /\ s[8] = "-"
       /\ AllDigits(s, 9, 10) /\ s[11] = "T" /\ AllDigits(s, 12, 13)
       /\ s[14] = ":" /\ AllDigits(s, 15, 16) /\ s[17] = ":"
       /\ AllDigits(s, 18, 19)
       /\ Len(s) = 20 => s[20] = "Z"
       /\ Len(s) = 25 => /\ s[20] \in {"+", "-"} /\ AllDigits(s, 21, 22)
                         /\ s[23] = ":" /\ AllDigits(s, 24, 25)
       /\ ValidDate(IntOf(SubSeq(s, 1, 4)), IntOf(SubSeq(s, 6, 7)),
                    IntOf(SubSeq(s, 9, 10)))
       /\ ValidTime(IntOf(SubSeq(s, 12, 13)), IntOf(SubSeq(s, 15, 16)))
    THEN [t |-> "ok",
          dt |-> [y |-> IntOf(SubSeq(s, 1, 4)), m |-> IntOf(SubSeq(s, 6, 7)),
                  d |-> IntOf(SubSeq(s, 9, 10)),
                  hour |-> IntOf(SubSeq(s, 12, 13)),
                  minute |-> IntOf(SubSeq(s, 15, 16))],
          aware |-> Len(s) > 19,
          offset |-> IF Len(s) = 25
                     THEN (IF s[20] = "-" THEN -1 ELSE 1)
                          * ((60 * IntOf(SubSeq(s, 21, 22)))
                             + IntOf(SubSeq(s, 24, 25)))
                     ELSE 0]
    ELSE [t |-> "raise"]

\* base.astimezone(kst) if base.tzinfo else base.replace(tzinfo=kst)
AsKst(parsed) ==
    IF parsed.aware THEN ToKst(parsed.dt, parsed.offset) ELSE parsed.dt

\* now_kst of _resolve_relative_deadline; `now` is datetime.now(kst)
ReferenceTime(received_at_iso, now) ==
    IF Truthy(received_at_iso) /\ ParseIso(received_at_iso.v).t = "ok"
    THEN AsKst(ParseIso(received_at_iso.v))
    ELSE now

\* ------------------------------------------------------------------------
\* _llm_resolve_deadline
\* ------------------------------------------------------------------------
\* re.match(r"^\d{4}-\d{2}-\d{2}\s\d{2}:\d{2}$", kst_str)
KstShape(s) ==
    /\ Len(s) = 16 \/ (Len(s) = 17 /\ s[17] = "\n")
    /\ AllDigits(s, 1, 4) /\ s[5] = "-" /\ AllDigits(s, 6, 7) /\ s[8] = "-"
    /\ AllDigits(s, 9, 10) /\ s[11] \in Whitespace /\ AllDigits(s, 12, 13)
    /\ s[14] = ":" /\ AllDigits(s, 15, 16)

\* iso.endswith("Z")
EndsWithZ(s) == s # <<>> /\ s[Len(s)] = "Z"

Unresolved == [t |-> "ok", kst |-> PyNone, iso |-> PyNone, llm |-> <<>>]

\* the condition of lines 886-891 with the shape of iso left unchecked
Accepted_AnyIso(data) ==
    /\ Truthy(data.kst) /\ data.kst.t = "str" /\ KstShape(data.kst.v)
    /\ Truthy(data.iso)

\* the condition of lines 886-891 on the parsed answer; a value that is not
\* a string raises inside re.match / endswith and is caught
Accepted(data) ==
    /\ Truthy(data.kst) /\ data.kst.t = "str" /\ KstShape(data.kst.v)
    /\ Truthy(data.iso) /\ data.iso.t = "str" /\ EndsWithZ(data.iso.v)

\* (kst, iso) and the prompts sent; comp is the answer of the service
LlmResolveDeadline(due_raw, received_at_iso, comp) ==
    IF Truthy(received_at_iso) /\ ParseIso(received_at_iso.v).t = "raise"
    THEN Unresolved
    ELSE IF comp.t = "json" /\ comp.v.t = "dict" /\ Accepted(comp.v)
    THEN [t |-> "ok", kst |-> PyStr(comp.v.kst.v \o <<" ", "K", "S", "T">>),
          iso |-> comp.v.iso, llm |-> <<due_raw>>]
    ELSE [t |-> "ok", kst |-> PyNone, iso |-> PyNone, llm |-> <<due_raw>>]

\* ------------------------------------------------------------------------
\* _resolve_relative_deadline: its rule-based attempts in the order of the
\* code.  Each gives [t |-> "none"], a date with the time of day it leaves
\* in hour and minute, or [t |-> "raise"] when the date it builds is invalid.
\* ------------------------------------------------------------------------
NoDate == [t |-> "none"]
Raises == [t |-> "raise"]
Target(date, tod) ==
    [t |-> "date", date |-> date, hour |-> tod.hour, minute |-> tod.minute]

\* date.max is 9999-12-31
MaxOrdinal == 3652059

Shifted(now_kst, days, tod) ==
    IF ToOrdinal(now_kst) + days > MaxOrdinal THEN Raises
    ELSE Target(AddDays(DateOf(now_kst), days), tod)

ShiftedBy(days, now_kst, tod) ==
    IF days = -1 THEN NoDate ELSE Shifted(now_kst, days, tod)

\* lines 942-947
ByKeyword(text, now_kst, tod) == ShiftedBy(RelativeDays(text), now_kst, tod)

ToWeekday(wd, now_kst, tod) ==
    IF wd = -1 THEN NoDate ELSE Shifted(now_kst, (wd - Weekday(now_kst)) % 7, tod)

\* lines 950-957
ByThisWeek(text, now_kst, tod) == ToWeekday(ThisWeekMatch(text), now_kst, tod)

ToNextWeekday(wd, now_kst, tod) ==
    IF wd = -1 THEN NoDate
    ELSE Shifted(now_kst, ((0 - Weekday(now_kst)) % 7) + 7 + wd, tod)

\* lines 960-970
ByNextWeek(text, now_kst, tod) == ToNextWeekday(NextWeekMatch(text), now_kst, tod)

\* lines 973-980
ByEndOf(text, now_kst) ==
    IF WordSearch(text, <<"E", "O", "D">>)
    THEN Target(DateOf(now_kst), [hour |-> 18, minute |-> 0])
    ELSE IF WordSearch(text, <<"E", "O", "W">>)
    THEN Shifted(now_kst, (4 - Weekday(now_kst)) % 7, [hour |-> 18, minute |-> 0])
    ELSE NoDate

OnIsoDate(m, tod) ==
    IF ~m.found THEN NoDate
    ELSE IF ~ValidDate(m.y, m.m, m.d) THEN Raises
    ELSE Target([y |-> m.y, m |-> m.m, d |-> m.d], tod)

\* lines 983-987
ByIsoDate(text, tod) == OnIsoDate(IsoDateMatch(text), tod)

InYear(y, m, tod) ==
    IF ~ValidDate(y, m.m, m.d) THEN Raises
    ELSE Target([y |-> y, m |-> m.m, d |-> m.d], tod)

OnSlashDate(m, now_kst, tod) ==
    IF ~m.found THEN NoDate
    ELSE InYear(IF m.m >= now_kst.m THEN now_kst.y ELSE now_kst.y + 1, m, tod)

\* lines 990-995
BySlashDate(text, now_kst, tod) == OnSlashDate(SlashDateMatch(text), now_kst, tod)

\* lines 998-1002
ByDaysAfter(text, now_kst, tod) == ShiftedBy(DaysAfterMatch(text), now_kst, tod)

\* lines 1005-1017; fz is what parser.parse(text, fuzzy=True) gives, as a
\* time of Asia/Seoul, or its exception
ByFuzzy(fz, tod) ==
    IF fz.t = "raise" THEN NoDate
    ELSE [t |-> "date", date |-> DateOf(fz.dt),
          hour |-> IF fz.dt.hour # 0 THEN fz.dt.hour ELSE tod.hour,
          minute |-> IF fz.dt.minute # 0 THEN fz.dt.minute ELSE tod.minute]

\* the attempts on text with the time of day tod that lines 924-936 found
StrategiesAt(text, now_kst, fz, tod) ==
    <<ByKeyword(text, now_kst, tod), ByThisWeek(text, now_kst, tod),
      ByNextWeek(text, now_kst, tod), ByEndOf(text, now_kst), ByIsoDate(text, tod),
      BySlashDate(text, now_kst, tod), ByDaysAfter(text, now_kst, tod),
      ByFuzzy(fz, tod)>>

Strategies(text, now_kst, fz) == StrategiesAt(text, now_kst, fz, TimeOfDay(text))

\* the first attempt that gives a date or raises; NoDate when none does
FirstAttempt(attempts) ==
    IF \A k \in 1..Len(attempts) : attempts[k].t = "none" THEN NoDate
    ELSE attempts[Least({k \in 1..Len(attempts) : attempts[k].t # "none"})]

ResolvedAt(due_kst) ==
    [t |-> "ok", kst |-> PyStr(FormatKst(due_kst)),
     iso |-> PyStr(FormatUtcIso(KstToUtc(due_kst))), llm |-> <<>>]

\* lines 1025-1028
Resolved(target) ==
    IF ~ValidTime(target.hour, target.minute) THEN Raises
    ELSE ResolvedAt(Combine(target.date, target.hour, target.minute))

\* lines 1019-1028 for the outcome `target` of the rule-based attempts
ResolveTarget(target, text, received_at_iso, comp) ==
    IF target.t = "raise" THEN Raises
    ELSE IF target.t = "none" THEN LlmResolveDeadline(text, received_at_iso, comp)
    ELSE Resolved(target)

\* the resolver with the completion service asked before the fuzzy parse
ResolveRelativeDeadline_LlmFirst(due_raw, received_at_iso, now, fz, comp) ==
    IF due_raw = <<>> THEN Unresolved
    ELSE ResolveTarget(FirstAttempt(SubSeq(Strategies(Strip(due_raw),
                                                      ReferenceTime(received_at_iso, now),
                                                      fz), 1, 7)),
                       Strip(due_raw), received_at_iso, comp)

\* _resolve_relative_deadline(due_raw, received_at_iso): (kst, iso), the
\* prompts sent to the completion service, or the exception that leaves it
ResolveRelativeDeadline(due_raw, received_at_iso, now, fz, comp) ==
    IF due_raw = <<>> THEN Unresolved
    ELSE ResolveTarget(FirstAttempt(Strategies(Strip(due_raw),
                                               ReferenceTime(received_at_iso, now),
                                               fz)),
                       Strip(due_raw), received_at_iso, comp)

\* ------------------------------------------------------------------------
\* normalize_action
\* ------------------------------------------------------------------------
\* _fmt_person(p): <<>> stands for None; a missing name or email is <<>>
FmtPerson(p) ==
    LET nm == Strip(p.name)
        em == Strip(p.email)
    IN  IF nm # <<>> /\ em # <<>> THEN nm \o <<" ", "<">> \o em \o <<">">>
        ELSE IF em # <<>> THEN em ELSE nm

\* the first element of seq that satisfies Test, <<>> when there is none
FirstWhere(seq, Test(_)) ==
    IF \E k \in 1..Len(seq) : Test(seq[k])
    THEN seq[Least({k \in 1..Len(seq) : Test(seq[k])})]
    ELSE <<>>

\* step 1: the first candidate that holds an "@"
EmailCandidate(cands) ==
    Strip(FirstWhere(cands, LAMBDA c : Contains(c, <<"@">>)))

\* the first person of a list that is named and does not hold the sender
FirstOther(people, sender_email) ==
    FirstWhere([k \in 1..Len(people) |-> FmtPerson(people[k])],
               LAMBDA f : f # <<>> /\ ~Contains(f, sender_email))

\* step 2: To first, then CC
RecipientAssignee(mail) ==
    LET sender_email == Strip(mail.from.email)
        to == FirstOther(mail.to, sender_email)
    IN  IF to # <<>> THEN to ELSE FirstOther(mail.cc, sender_email)

\* step 3: the first candidate with text
TextCandidate(cands) == Strip(FirstWhere(cands, LAMBDA c : Strip(c) # <<>>))

\* the sentinel of line 1084
Unassigned == <<"mi", "ji", "jeong">>

\* the candidates read with `action.get("assignee_candidates") or []`
CandidatesOf(action) ==
    IF Truthy(action.assignee_candidates) THEN action.assignee_candidates.v
    ELSE <<>>

\* lines 1052-1084
AssigneeOf(action, mail) ==
    LET cands == CandidatesOf(action)
        a1 == EmailCandidate(cands)
        a2 == IF a1 = <<>> /\ action.type = PySym("FOLLOW_UP")
              THEN RecipientAssignee(mail) ELSE a1
        a3 == IF a2 = <<>> THEN TextCandidate(cands) ELSE a2
    IN  IF a3 = <<>> THEN Unassigned ELSE a3

\* lines 1192-1195 without the cap
Confidence_Uncapped(default, type, due_iso, assignee) ==
    IF type = PySym("DO") /\ Truthy(due_iso) /\ Contains(assignee, <<"@">>)
    THEN default + 20
    ELSE IF type = PySym("FOLLOW_UP") /\ Truthy(due_iso)
    THEN default + 15
    ELSE default

\* lines 1089 and 1192-1195, in hundredths
Confidence(default, type, due_iso, assignee) ==
    IF type = PySym("DO") /\ Truthy(due_iso) /\ Contains(assignee, <<"@">>)
    THEN Min(default + 20, 100)
    ELSE IF type = PySym("FOLLOW_UP") /\ Truthy(due_iso)
    THEN Min(default + 15, 100)
    ELSE default

\* (weekday)yo(il)?\s*kka ji follows offset q
WeekdayStrictAt(text, q) ==
    /\ WeekdayAt(text, q)
    /\ MatchAt(text, <<"kka", "ji">>,
               ClassRunEnd(text, IF MatchAt(text, <<"il">>, q + 2) THEN q + 3 ELSE q + 2,
                           Whitespace))

WeekdayStrictBehind(text, e) ==
    e # -1 /\ WeekdayStrictAt(text, ClassRunEnd(text, e, Whitespace))

\* re.search(r"(?:i beon\s*ju|geum ju)\s*(weekday)yo(il)?\s*kka ji", due_raw)
ThisWeekStrictAt(text, p) ==
    WeekdayStrictBehind(text, WeekPrefixEnd(text, p, <<"i", "beon">>, <<"geum">>))

WeekdayNameBehind(text, e) ==
    /\ e # -1
    /\ ClassRunEnd(text, e, Whitespace) < Len(text)
    /\ IsWeekdayName(text[ClassRunEnd(text, e, Whitespace) + 1])

ThisWeekLooseAt(text, p) ==
    WeekdayNameBehind(text, WeekPrefixEnd(text, p, <<"i", "beon">>, <<"geum">>))

\* re.search(r"(?:i beon\s*ju|geum ju)\s*(weekday)", due_raw).group(1)
ThisWeekLoose(text) ==
    WeekdayNamedAt(text,
                   WeekPrefixEnd(text,
                                 Least({p \in 0..(Len(text) - 1) : ThisWeekLooseAt(text, p)}),
                                 <<"i", "beon">>, <<"geum">>))

\* the first branch of lines 1127-1161 that applies, with the time of day tod
BackupTargetAt(due_raw, now, tod) ==
    IF Contains(due_raw, <<"geum", "il">>) \/ Contains(due_raw, <<"oh", "neul">>)
    THEN Shifted(now, 0, tod)
    ELSE IF Contains(due_raw, <<"nae", "il">>) \/ Contains(due_raw, <<"myeong", "il">>)
    THEN Shifted(now, 1, tod)
    ELSE IF \E p \in 0..(Len(due_raw) - 1) : ThisWeekStrictAt(due_raw, p)
    THEN Shifted(now, (ThisWeekLoose(due_raw) - Weekday(now)) % 7, tod)
    ELSE IF IsoDateMatch(due_raw).found THEN ByIsoDate(due_raw, tod)
    ELSE IF SlashDateMatch(due_raw).found THEN BySlashDate(due_raw, now, tod)
    ELSE IF DaysAfterMatch(due_raw) # -1 THEN ByDaysAfter(due_raw, now, tod)
    ELSE NoDate

\* lines 1127-1161
BackupTarget(due_raw, now) == BackupTargetAt(due_raw, now, TimeOfDay(due_raw))

BackupPair(r) == [kst |-> r.kst, iso |-> r.iso]
BackupResolved(target) ==
    IF target.t = "date" /\ ValidTime(target.hour, target.minute)
    THEN BackupPair(Resolved(target))
    ELSE [kst |-> PyNone, iso |-> PyNone]

\* lines 1163-1176: the fuzzy parse when no branch applied
BackupOrFuzzy(first, due_raw, fz) ==
    BackupResolved(IF first.t = "none" THEN ByFuzzy(fz, TimeOfDay(due_raw)) ELSE first)

\* lines 1110-1187: (due_kst_str, due_iso), both None when the block finds
\* no date or raises
BackupParse(due_raw, now, fz) == BackupOrFuzzy(BackupTarget(due_raw, now), due_raw, fz)

\* "original due: " and "read as (KST): " of lines 1202 and 1204
NoteRaw == <<"won", "bon", " ", "gi", "han", ":", " ">>
NoteKst == <<"hae", "seok", "(", "K", "S", "T", ")", ":", " ">>

JoinNotes(a, b) ==
    IF a # <<>> /\ b # <<>> THEN a \o <<" ", "|", " ">> \o b ELSE a \o b

\* " | ".join(note_parts)
NotesOf(due_raw, due_kst_str) ==
    JoinNotes(IF due_raw # <<>> THEN NoteRaw \o due_raw ELSE <<>>,
              IF Truthy(due_kst_str) THEN NoteKst \o due_kst_str.v ELSE <<>>)

\* lines 1197-1215: the dictionary returned
NormalizedAction(action, due_raw, assignee, due_iso, due_kst_str, default) ==
    [t |-> "dict",
     title |-> action.title,
     assignee |-> assignee,
     due |-> due_iso,
     priority |-> action.priority,
     tags |-> action.tags,
     type |-> action.type,
     confidence |-> Confidence(default, action.type, due_iso, assignee),
     notes |-> NotesOf(due_raw, due_kst_str)]

\* lines 1188-1190: the backup parse b replaces what was known when it found
\* a date
WithBackup(action, due_raw, assignee, iso1, kst1, b, llm, default) ==
    [t |-> "ok", llm |-> llm,
     value |-> NormalizedAction(action, due_raw, assignee,
                                IF Truthy(b.iso) THEN b.iso ELSE iso1,
                                IF Truthy(b.iso) THEN b.kst ELSE kst1, default)]

\* lines 1110-1115: the backup parse runs when there is a phrase and no date
WithDeadline(action, due_raw, assignee, iso1, kst1, llm, now, fz, default) ==
    WithBackup(action, due_raw, assignee, iso1, kst1,
               IF ~Truthy(iso1) /\ due_raw # <<>>
               THEN BackupParse(due_raw, now, fz)
               ELSE [kst |-> PyNone, iso |-> PyNone],
               llm, default)

\* lines 1097-1107: the outcome r of the resolver replaces the given deadline
\* when it holds a date; its exception leaves normalize_action
WithResolved(action, due_raw, assignee, r, now, fz, default) ==
    IF r.t = "raise" THEN [t |-> "raise", llm |-> <<>>]
    ELSE WithDeadline(action, due_raw, assignee,
                      IF Truthy(r.iso) THEN r.iso ELSE action.due_resolved_iso,
                      IF Truthy(r.iso) THEN r.kst ELSE action.due_resolved_kst,
                      r.llm, now, fz, default)

\* lines 1046-1107 for the stripped phrase due_raw
NormalizeWithDue(action, due_raw, mail, now, fz, comp, default) ==
    WithResolved(action, due_raw, AssigneeOf(action, mail),
                 IF ~Truthy(action.due_resolved_iso) /\ due_raw # <<>>
                 THEN ResolveRelativeDeadline(due_raw, mail.receivedAt, now, fz, comp)
                 ELSE Unresolved,
                 now, fz, default)

\* normalize_action(raw_action, email_data): the normalized action (PyNone for
\* None) with the deadline prompts sent, or the exception that leaves it
NormalizeAction(raw, mail, now, fz, comp, default) ==
    IF ~Truthy(raw.is_action) \/ ~Truthy(raw.action)
    THEN [t |-> "ok", value |-> PyNone, llm |-> <<>>]
    ELSE NormalizeWithDue(raw.action,
                          IF Truthy(raw.action.due_raw)
                          THEN Strip(raw.action.due_raw.v) ELSE <<>>,
                          mail, now, fz, comp, default)

\* action["due_resolved_iso"] = iso; action["due_resolved_kst"] = kst
WrittenBack(action, iso, kst) ==
    [action EXCEPT !.due_resolved_iso = iso, !.due_resolved_kst = kst]

\* lines 1185-1186: setdefault writes a key the action does not hold; of the
\* two keys PyNone is the missing key, since the record that
\* _validate_and_fix_action builds holds neither
SetDefaults(action, iso, kst) ==
    [action EXCEPT
        !.due_resolved_kst = IF action.due_resolved_kst = PyNone THEN kst ELSE @,
        !.due_resolved_iso = IF action.due_resolved_iso = PyNone THEN iso ELSE @]

\* lines 1110-1187: the backup parse b writes what it found into the action
AfterBackup(action, b) ==
    IF Truthy(b.iso) THEN SetDefaults(action, b.iso, b.kst) ELSE action

\* lines 1098-1115 for the outcome r of the resolver: its date is written into
\* the action; without one the backup parse runs
AfterResolver(action, due_raw, r, now, fz) ==
    IF r.t = "raise" THEN action
    ELSE IF Truthy(r.iso) THEN WrittenBack(action, r.iso, r.kst)
    ELSE IF ~Truthy(action.due_resolved_iso) /\ due_raw # <<>>
    THEN AfterBackup(action, BackupParse(due_raw, now, fz))
    ELSE action

\* the action of raw_action after lines 1039-1187 for the stripped phrase due_raw
ActionAfterDue(action, due_raw, mail, now, fz, comp) ==
    AfterResolver(action, due_raw,
                  IF ~Truthy(action.due_resolved_iso) /\ due_raw # <<>>
                  THEN ResolveRelativeDeadline(due_raw, mail.receivedAt, now, fz, comp)
                  ELSE Unresolved,
                  now, fz)

\* raw_action as normalize_action leaves it: action = raw_action["action"] is
\* the caller's dictionary, not a copy
ActionAfter(raw, mail, now, fz, comp) ==
    IF ~Truthy(raw.is_action) \/ ~Truthy(raw.action) THEN raw
    ELSE [raw EXCEPT !.action =
              ActionAfterDue(raw.action,
                             IF Truthy(raw.action.due_raw)
                             THEN Strip(raw.action.due_raw.v) ELSE <<>>,
                             mail, now, fz, comp)]

\* ------------------------------------------------------------------------
\* Specification of normalize_action
\* ------------------------------------------------------------------------
MaxPhrasePieces == 2

PhrasePieces ==
    {<<"oh", "neul">>, <<"nae", "il">>, <<"mo", "re">>,
     <<"oh", "hu", " ", "3", "si">>, <<"oh", "jeon", " ", "1", "2", "si">>,
     <<"2", "5", "si">>, <<"9", "si", " ", "3", "0", "bun">>,
     <<"i", "beon", " ", "ju", " ", "geum", "yo", "il", "kka", "ji">>,
     <<"geum", "ju", " ", "wol", "yo", "il", "kka", "ji">>,
     <<"da", "eum", " ", "ju", " ", "hwa", "yo", "il", "kka", "ji">>,
     <<"E", "O", "D">>,
     <<"2", "0", "2", "4", "-", "0", "6", "-", "3", "0">>,
     <<"6", "/", "3", "0">>, <<"3", "il", " ", "hu">>, <<" ">>, <<"w">>}

\* the due_raw values of the model: _validate_and_fix_action strips them
DueRaws == {t \in TextsOf(PhrasePieces, MaxPhrasePieces) : Strip(t) = t}

\* a one-line text as the sequence of its characters
Chars(str) ==
    CASE str = "2024-06-10T09:00:00+09:00" ->
             <<"2", "0", "2", "4", "-", "0", "6", "-", "1", "0", "T", "0", "9",
               ":", "0", "0", ":", "0", "0", "+", "0", "9", ":", "0", "0">>
      [] str = "2024-12-31T16:30:00Z" ->
             <<"2", "0", "2", "4", "-", "1", "2", "-", "3", "1", "T", "1", "6",
               ":", "3", "0", ":", "0", "0", "Z">>
      [] str = "2024-06-11 15:00" ->
             <<"2", "0", "2", "4", "-", "0", "6", "-", "1", "1", " ", "1", "5",
               ":", "0", "0">>
      [] str = "2024-06-10T06:00:00+00:00" ->
             <<"2", "0", "2", "4", "-", "0", "6", "-", "1", "0", "T", "0", "6",
               ":", "0", "0", ":", "0", "0", "+", "0", "0", ":", "0", "0">>
      [] str = "2024-06-11T06:00:00Z" ->
             <<"2", "0", "2", "4", "-", "0", "6", "-", "1", "1", "T", "0", "6",
               ":", "0", "0", ":", "0", "0", "Z">>

\* email_data["receivedAt"]: a Monday morning in Seoul, a UTC time whose
\* Seoul date is the first day of the next year, a text that does not parse,
\* and the empty string
ReceivedAts ==
    {PyStr(Chars("2024-06-10T09:00:00+09:00")),
     PyStr(Chars("2024-12-31T16:30:00Z")),
     PyStr(<<"w">>), PyStr(<<>>)}

\* datetime.now(kst) during the call: a Thursday
Clocks == {[y |-> 2024, m |-> 2, d |-> 29, hour |-> 23, minute |-> 50]}

\* answers of the completion service to the deadline prompt
DeadlineAnswer(kst, iso) == [t |-> "dict", kst |-> kst, iso |-> iso]
DeadlineCompletions ==
    {Completion_Error, Completion_Malformed, Completion_Json(PyInt),
     Completion_Json(DeadlineAnswer(PyNone, PyNone)),
     Completion_Json(DeadlineAnswer(PyStr(Chars("2024-06-11 15:00")),
                                    PyStr(Chars("2024-06-11T06:00:00Z")))),
     Completion_Json(DeadlineAnswer(PyStr(Chars("2024-06-11 15:00")),
                                    PyStr(<<"w", "Z">>))),
     Completion_Json(DeadlineAnswer(PyStr(Chars("2024-06-11 15:00")),
                                    PyStr(<<"w">>))),
     Completion_Json(DeadlineAnswer(PyStr(<<"w">>),
                                    PyStr(Chars("2024-06-11T06:00:00Z")))),
     Completion_Json(DeadlineAnswer(PyStr(Chars("2024-06-11 15:00")), PyInt))}

\* outcomes of dateutil's fuzzy parse: no date found, or some date and time
FuzzyOutcomes ==
    {[t |-> "raise"],
     [t |-> "ok", dt |-> [y |-> 2024, m |-> 6, d |-> 3, hour |-> 0, minute |-> 0]]}

\* an answer of the shape the prompt asks for
GoodAnswer ==
    Completion_Json(DeadlineAnswer(PyStr(Chars("2024-06-11 15:00")),
                                   PyStr(Chars("2024-06-11T06:00:00Z"))))

Person(name, addr) == [name |-> name, email |-> addr]

NormAction(type, cands, due_raw, given) ==
    [t |-> "dict", type |-> type, title |-> PyStr(<<"w">>),
     priority |-> PySym("High"), tags |-> PyList(<<"a">>),
     assignee_candidates |-> cands, due_raw |-> due_raw,
     due_resolved_iso |-> given, due_resolved_kst |-> PyNone,
     rationale |-> PySym("")]

StandardEmail(from, to, cc, received) ==
    [from |-> from, to |-> to, cc |-> cc, receivedAt |-> received]

\* the two kinds of action, with and without an address among the candidates
ActionKinds == {<<PySym("DO"), PyList(<<Other>>)>>, <<PySym("FOLLOW_UP"), PyNone>>}

\* inputs that vary the due phrase, the reference time and the fuzzy parse
PhraseCases ==
    {[raw |-> ResultOf(PyBool(TRUE), NormAction(ty[1], ty[2], PyStr(d), PyNone)),
      mail |-> StandardEmail(Person(<<"o">>, Other), <<Person(<<"m">>, Me)>>,
                             <<>>, rc),
      oracle |-> <<fz, GoodAnswer>>, default |-> 65] :
        ty \in ActionKinds, d \in DueRaws, rc \in ReceivedAts,
        fz \in FuzzyOutcomes}

\* phrases that no rule reads
UnreadPhrases == {<<"w">>, <<"3", "si">>, <<"oh", "hu">>}

\* inputs that vary the answer of the completion service
AnswerCases ==
    {[raw |-> ResultOf(PyBool(TRUE), NormAction(ty[1], ty[2], PyStr(d), PyNone)),
      mail |-> StandardEmail(Person(<<"o">>, Other), <<Person(<<"m">>, Me)>>,
                             <<>>, rc),
      oracle |-> <<[t |-> "raise"], c>>, default |-> 65] :
        ty \in ActionKinds, d \in UnreadPhrases, rc \in ReceivedAts,
        c \in DeadlineCompletions}

DeadlineCases == PhraseCases \cup AnswerCases

\* inputs that vary the candidates, the people of the email and the default
AssigneeCandidates ==
    {PyNone, PyList(<<>>), PyList(<<<<"o">>>>), PyList(<<<<" ">>, <<"o">>>>),
     PyList(<<<<"o">>, <<" ", "o", "@", "d", " ">>>>), PyList(<<<<"@">>>>)}

Senders == {Person(<<"o">>, Other), Person(<<"o">>, <<>>)}

Recipients ==
    {<<>>, <<Person(<<"m">>, Me)>>, <<Person(<<"o">>, Other), Person(<<"m">>, Me)>>,
     <<Person(<<"w">>, <<"o">> \o Other)>>, <<Person(<<"w">>, <<>>)>>}

AssigneeCases ==
    {[raw |-> ResultOf(PyBool(TRUE), NormAction(ty, cs, dg[1], dg[2])),
      mail |-> StandardEmail(sd, to, cc,
                             PyStr(Chars("2024-06-10T09:00:00+09:00"))),
      oracle |-> <<[t |-> "raise"], Completion_Error>>, default |-> df] :
        ty \in {PySym("DO"), PySym("FOLLOW_UP")}, cs \in AssigneeCandidates,
        dg \in {<<PyNone, PyNone>>, <<PyStr(<<"nae", "il">>), PyNone>>,
                <<PyNone, PyStr(Chars("2024-06-11T06:00:00Z"))>>},
        sd \in Senders, to \in Recipients,
        cc \in {<<>>, <<Person(<<"m">>, Me)>>},
        df \in {0, 65, 90, 100}}

\* results that normalize_action turns down
NoActionCases ==
    {[raw |-> r,
      mail |-> StandardEmail(Person(<<"o">>, Other), <<Person(<<"m">>, Me)>>,
                             <<>>, PyStr(<<>>)),
      oracle |-> <<[t |-> "raise"], Completion_Error>>, default |-> 65] :
        r \in {ResultOf(PyBool(FALSE),
                        NormAction(PySym("DO"), PyNone, PyNone, PyNone)),
               ResultOf(PyBool(TRUE), PyNone)}}

NormIn == DeadlineCases \cup AssigneeCases \cup NoActionCases

InitNormalize ==
    /\ pc = "start"
    /\ \E c \in NormIn :
          /\ raw_action = c.raw
          /\ email_data = c.mail
          /\ fuzzy = c.oracle[1]
          /\ completion = c.oracle[2]
          /\ default_confidence = c.default
    /\ clock \in Clocks
    /\ llm_calls = <<>>
    /\ normalized = <<>>
    /\ action_result = raw_action
    /\ EarlierIdle
    /\ IndexIdle

\* what the caller sees of the outcome r of normalize_action
Returns(r) ==
    /\ normalized' = IF r.t = "ok" THEN [t |-> "ok", value |-> r.value]
                     ELSE [t |-> "raise"]
    /\ llm_calls' = r.llm

\* normalized_action = self.normalize_action(action_result, standardized_email):
\* raw_action keeps the record as it was handed in, action_result is the same
\* record after the call
RunNormalize ==
    /\ pc = "start"
    /\ Returns(NormalizeAction(raw_action, email_data, clock, fuzzy, completion,
                               default_confidence))
    /\ action_result' = ActionAfter(raw_action, email_data, clock, fuzzy, completion)
    /\ pc' = "done"
    /\ UNCHANGED <<raw_action, email_data, clock, fuzzy, completion,
                   default_confidence>>
    /\ UNCHANGED <<earlierVars, indexVars>>

NextNormalize == RunNormalize

SpecNormalize == InitNormalize /\ [][NextNormalize]_vars

\* ------------------------------------------------------------------------
\* Claims about the deadline resolver
\* ------------------------------------------------------------------------
\* the due phrase and the reference time of the call under check
HasDuePhrase ==
    /\ Truthy(raw_action.is_action) /\ Truthy(raw_action.action)
    /\ Truthy(raw_action.action.due_raw)
DuePhraseOf == Strip(raw_action.action.due_raw.v)
NowKst == ReferenceTime(email_data.receivedAt, clock)
Attempts == Strategies(DuePhraseOf, NowKst, fuzzy)

\* the normalized action of a finished call that returned one
Returned == pc = "done" /\ normalized.t = "ok" /\ normalized.value # PyNone

\* C11: one call of normalize_action sends at most one deadline prompt to
\* the completion service, and only when every rule-based attempt (keyword,
\* this week, next week, EOD/EOW, YYYY-MM-DD, MM/DD, N days, fuzzy parse)
\* found no date; when any of them finds a date, no prompt is sent.
C11_LlmOnlyAfterRules ==
    pc = "done" =>
        /\ Len(llm_calls) <= 1
        /\ Len(llm_calls) = 1 =>
              /\ HasDuePhrase
              /\ \A k \in 1..Len(Attempts) : Attempts[k].t = "none"
        /\ (HasDuePhrase /\ \E k \in 1..Len(Attempts) : Attempts[k].t = "date")
              => llm_calls = <<>>

\* a prompt was sent and the answer became the due date
C11_Witness ==
    /\ Returned
    /\ Len(llm_calls) = 1
    /\ Truthy(normalized.value.due)

\* the shapes the claim names
LocalShape(s) ==
    /\ Len(s) = 16
    /\ AllDigits(s, 1, 4) /\ s[5] = "-" /\ AllDigits(s, 6, 7) /\ s[8] = "-"
    /\ AllDigits(s, 9, 10) /\ s[11] = " " /\ AllDigits(s, 12, 13)
    /\ s[14] = ":" /\ AllDigits(s, 15, 16)
IsoZShape(s) ==
    /\ Len(s) = 20
    /\ AllDigits(s, 1, 4) /\ s[5] = "-" /\ AllDigits(s, 6, 7) /\ s[8] = "-"
    /\ AllDigits(s, 9, 10) /\ s[11] = "T" /\ AllDigits(s, 12, 13)
    /\ s[14] = ":" /\ AllDigits(s, 15, 16) /\ s[17] = ":"
    /\ AllDigits(s, 18, 19) /\ s[20] = "Z"

\* C12: when the deadline prompt was sent, the normalized action has a due
\* date only if the answer is JSON whose kst has the shape YYYY-MM-DD HH:MM
\* and whose iso has the shape YYYY-MM-DDTHH:MM:SSZ; on any other answer the
\* due date stays unset.
C12_StrictShapes ==
    (Returned /\ Len(llm_calls) = 1 /\ Truthy(normalized.value.due)) =>
        /\ completion.t = "json" /\ completion.v.t = "dict"
        /\ completion.v.kst.t = "str" /\ LocalShape(completion.v.kst.v)
        /\ completion.v.iso.t = "str" /\ IsoZShape(completion.v.iso.v)

\* ------------------------------------------------------------------------
\* Claims about relative-day phrases
\* ------------------------------------------------------------------------
\* the call resolves its due phrase, and the phrase holds a relative-day keyword
KeywordCase ==
    /\ pc = "done"
    /\ HasDuePhrase
    /\ DuePhraseOf # <<>>
    /\ ~Truthy(raw_action.action.due_resolved_iso)
    /\ RelativeDays(DuePhraseOf) # -1

\* the days the keyword stands for: today 0, tomorrow 1, the day after 2
KeywordDays ==
    IF Contains(DuePhraseOf, <<"oh", "neul">>) \/ Contains(DuePhraseOf, <<"geum", "il">>)
    THEN 0
    ELSE IF Contains(DuePhraseOf, <<"nae", "il">>)
            \/ Contains(DuePhraseOf, <<"myeong", "il">>)
    THEN 1 ELSE 2

\* nine hours before a local date and time
NineHoursEarlier(dt) ==
    IF dt.hour >= 9
    THEN Combine(DateOf(dt), dt.hour - 9, dt.minute)
    ELSE Combine(AddDays(DateOf(dt), -1), dt.hour + 15, dt.minute)

\* the normalized action carries this local time, and the UTC time nine hours
\* before it as its due date
DueIs(local) ==
    /\ Returned
    /\ normalized.value.due = PyStr(FormatUtcIso(NineHoursEarlier(local)))
    /\ normalized.value.notes = NotesOf(DuePhraseOf, PyStr(FormatKst(local)))

WeekdayCase ==
    /\ pc = "done"
    /\ HasDuePhrase
    /\ DuePhraseOf # <<>>
    /\ ~Truthy(raw_action.action.due_resolved_iso)
    /\ RelativeDays(DuePhraseOf) = -1
    /\ ValidTime(TimeOfDay(DuePhraseOf).hour, TimeOfDay(DuePhraseOf).minute)

\* the phrase names a weekday of this week
ThisWeekCase == WeekdayCase /\ ThisWeekMatch(DuePhraseOf) # -1

\* the phrase names a weekday of next week, and none of this week
NextWeekCase ==
    WeekdayCase /\ ThisWeekMatch(DuePhraseOf) = -1 /\ NextWeekMatch(DuePhraseOf) # -1

\* the Monday of the Monday-to-Sunday week that holds the reference date
ReferenceMonday == AddDays(DateOf(NowKst), 0 - Weekday(NowKst))

\* the due date is `days` days after that Monday, at the time of the phrase
DueInWeek(days) ==
    DueIs(Combine(AddDays(ReferenceMonday, days), TimeOfDay(DuePhraseOf).hour,
                  TimeOfDay(DuePhraseOf).minute))

\* C25 as stated: for a phrase "this week <weekday>" the due date is the
\* date of that weekday in the Monday-to-Sunday week that holds the
\* reference date, whatever the weekday of the reference date and the
\* weekday named.
C25_InReferenceWeek == ThisWeekCase => DueInWeek(ThisWeekMatch(DuePhraseOf))

\* C26 as stated: for a phrase "next week <weekday>" the due date is the
\* date of that weekday in the week that follows the week of the reference
\* date, whatever the weekday of the reference date.
C26_InFollowingWeek == NextWeekCase => DueInWeek(7 + NextWeekMatch(DuePhraseOf))

\* ------------------------------------------------------------------------
\* Claims about exceptions of the resolver
\* ------------------------------------------------------------------------
\* C29 as stated: whatever the due phrase and the reference time, the resolver
\* called by normalize_action returns a pair (resolved, or None and None) and
\* raises nothing, so normalize_action returns as well.
C29_ResolverCompletes == pc = "done" => normalized.t = "ok"

\* ------------------------------------------------------------------------
\* Claims about the assignee and the confidence
\* ------------------------------------------------------------------------
\* the first person of a list whose address is not the sender's
FirstOfOtherAddress(people, sender_email) ==
    FirstWhere([k \in 1..Len(people) |->
                   IF Strip(people[k].email) # sender_email
                   THEN FmtPerson(people[k]) ELSE <<>>],
               LAMBDA f : f # <<>>)

\* C14: the assignee is (1) the first candidate holding "@"; else (2) for a
\* FOLLOW_UP the first To recipient, else the first CC recipient, whose
\* address differs from the sender's; else (3) the first candidate with text;
\* else (4) the unassigned sentinel; so it is never empty.
C14_AssigneeOrder ==
    Returned =>
        LET action == raw_action.action
            cands == CandidatesOf(action)
            sender == Strip(email_data.from.email)
            to == FirstOfOtherAddress(email_data.to, sender)
            cc == FirstOfOtherAddress(email_data.cc, sender)
            a == normalized.value.assignee
        IN  /\ a # <<>>
            /\ IF \E k \in 1..Len(cands) : Contains(cands[k], <<"@">>)
               THEN a = EmailCandidate(cands)
               ELSE IF action.type = PySym("FOLLOW_UP") /\ to # <<>> THEN a = to
               ELSE IF action.type = PySym("FOLLOW_UP") /\ cc # <<>> THEN a = cc
               ELSE IF \E k \in 1..Len(cands) : Strip(cands[k]) # <<>>
               THEN a = TextCandidate(cands)
               ELSE a = Unassigned

\* C15: the confidence is min(default + 0.2, 1) for a DO with a due date and
\* an assignee holding "@", min(default + 0.15, 1) for a FOLLOW_UP with a due
\* date, and the default otherwise; it lies in [0, 1] and is never below the
\* default (in hundredths).
C15_ConfidenceBoost ==
    Returned =>
        LET v == normalized.value
            boosted(n) == IF default_confidence + n < 100
                          THEN default_confidence + n ELSE 100
        IN  /\ v.confidence =
                  IF v.type = PySym("DO") /\ Truthy(v.due)
                     /\ Contains(v.assignee, <<"@">>)
                  THEN boosted(20)
                  ELSE IF v.type = PySym("FOLLOW_UP") /\ Truthy(v.due)
                  THEN boosted(15)
                  ELSE default_confidence
            /\ v.confidence \in 0..100
            /\ v.confidence >= default_confidence

\* a DO with a due date and an address as assignee, capped at 1
C15_Witness ==
    /\ Returned
    /\ normalized.value.type = PySym("DO")
    /\ Truthy(normalized.value.due)
    /\ Contains(normalized.value.assignee, <<"@">>)
    /\ default_confidence = 90
    /\ normalized.value.confidence = 100

\* ------------------------------------------------------------------------
\* Claims about what normalize_action leaves alone
\* ------------------------------------------------------------------------
\* C21 as stated: after normalize_action has run, the validated result of the
\* extractor that it was handed is field for field what it was before the
\* call (the policy signals are not handed to it, and the standardized email
\* is only read).
C21_InputsUnchanged == pc = "done" => action_result = raw_action

\* a call that resolved its phrase and left the date in the caller's record
C21_DateWrittenBack ==
    /\ pc = "done"
    /\ raw_action.action.due_resolved_iso = PyNone
    /\ Truthy(action_result.action.due_resolved_iso)
    /\ action_result.action.due_resolved_iso = normalized.value.due

\* ------------------------------------------------------------------------
\* create_text_chunks
\* ------------------------------------------------------------------------
DefaultChunkSize == 900
DefaultOverlap == 150

Greatest(S) == CHOOSE a \in S : \A b \in S : b <= a

\* s.rfind(c, start, end): the greatest offset of c in s[start:end], -1 if none
RFind(s, c, start, end) ==
    Greatest({-1} \cup {i \in start..(Min(end, Len(s)) - 1) : s[i + 1] = c})

\* the cut moves behind any boundary of the span
SnapEnd_AnyBoundary(end, boundary, start, size) ==
    IF boundary > start THEN boundary + 1 ELSE end

\* lines 1239-1241: the cut moves behind a boundary in the second half
SnapEnd(end, boundary, start, size) ==
    IF boundary > start + (size \div 2) THEN boundary + 1 ELSE end

\* lines 1232-1241: the end of the span that starts at `start`
SpanEnd(s, start, size) ==
    IF start + size < Len(s)
    THEN SnapEnd(start + size,
                 Max(RFind(s, ".", start, start + size),
                     RFind(s, "\n", start, start + size)),
                 start, size)
    ELSE start + size

\* the next span starts where the last one ended
NextStart_NoOverlap(end, lap) == end

\* start = end - overlap
NextStart(end, lap) == end - lap

\* the spans text[start:end] of the iterations of the while loop, in order;
\* the loop ends because every input keeps overlap below half of chunk_size
RECURSIVE Spans(_, _, _, _)
SpansFrom(s, start, end, size, lap) ==
    <<[start |-> start, end |-> end]>> \o Spans(s, NextStart(end, lap), size, lap)
Spans(s, start, size, lap) ==
    IF start >= Len(s) THEN <<>>
    ELSE SpansFrom(s, start, SpanEnd(s, start, size), size, lap)

\* chunk = text[start:end].strip()
ChunkOf(s, span) == Strip(Slice(s, span.start, span.end))

\* if chunk: chunks.append(chunk)
ChunksOfSpans(s, spans) ==
    SelectSeq([k \in 1..Len(spans) |-> ChunkOf(s, spans[k])], LAMBDA c : c # <<>>)

\* create_text_chunks without its early return
CreateTextChunks_AlwaysLoop(s, size, lap) ==
    ChunksOfSpans(s, Spans(s, 0, size, lap))

\* create_text_chunks(text, chunk_size, overlap)
CreateTextChunks(s, size, lap) ==
    IF Len(s) <= size THEN <<s>>
    ELSE ChunksOfSpans(s, Spans(s, 0, size, lap))

\* ------------------------------------------------------------------------
\* Specification of create_text_chunks
\* ------------------------------------------------------------------------
MaxChunkPieces == 4

ChunkPieces ==
    {<<"a", "b", "c">>, <<"d", ".">>, <<"e", "\n">>, <<" ", " ", " ", " ">>,
     <<"f", "g">>, <<".">>}

\* texts long enough for the default arguments: one run of letters, and
\* letters with a newline in the second half of the first span
LongTexts ==
    {[k \in 1..1600 |-> IF k % 2 = 0 THEN "a" ELSE "b"],
     [k \in 1..1000 |-> IF k = 801 THEN "\n" ELSE IF k % 2 = 0 THEN "a" ELSE "b"],
     [k \in 1..1000 |-> IF k = 701 THEN "." ELSE IF k % 3 = 0 THEN "a" ELSE "b"]}

ChunkArgs ==
    {[chunk_size |-> 6, overlap |-> 1], [chunk_size |-> 6, overlap |-> 2],
     [chunk_size |-> 8, overlap |-> 2]}

ChunkIn ==
    {[text |-> t, chunk_size |-> a.chunk_size, overlap |-> a.overlap] :
        t \in TextsOf(ChunkPieces, MaxChunkPieces), a \in ChunkArgs}
    \cup {[text |-> t, chunk_size |-> DefaultChunkSize, overlap |-> DefaultOverlap] :
             t \in LongTexts}

InitChunks ==
    /\ pc = "start"
    /\ \E c \in ChunkIn :
          /\ full_text = c.text
          /\ chunk_size = c.chunk_size
          /\ overlap = c.overlap
    /\ chunks = <<>>
    /\ span_start = 0
    /\ EarlierIdle
    /\ NormIdle
    /\ KeyIdle
    /\ MentionIdle
    /\ BatchIdle
    /\ HintIdle

\* chunks = self.create_text_chunks(full_text)
RunChunks ==
    /\ pc = "start"
    /\ chunks' = CreateTextChunks(full_text, chunk_size, overlap)
    /\ pc' = "done"
    /\ UNCHANGED <<full_text, chunk_size, overlap, span_start>>
    /\ UNCHANGED <<earlierVars, normVars, keyVars, mentionVars, batchVars,
                 hintVars>>

NextChunks == RunChunks

SpecChunks == InitChunks /\ [][NextChunks]_vars

\* ------------------------------------------------------------------------
\* Specification of the loop of create_text_chunks, one iteration a step,
\* on texts that the default arguments cut into several spans
\* ------------------------------------------------------------------------
MaxLongPieces == 3

Letters(n) == [k \in 1..n |-> "a"]

\* runs of letters, a sentence, and two lines
LongPieces ==
    {Letters(452), Letters(700), Letters(300) \o <<".">>,
     Letters(120) \o <<"\n">> \o Letters(120)}

InitChunkLoop ==
    /\ pc = "start"
    /\ full_text \in TextsOf(LongPieces, MaxLongPieces)
    /\ chunk_size = DefaultChunkSize
    /\ overlap = DefaultOverlap
    /\ chunks = <<>>
    /\ span_start = 0
    /\ EarlierIdle
    /\ NormIdle
    /\ KeyIdle
    /\ MentionIdle
    /\ BatchIdle
    /\ HintIdle

ChunkLoopFrame ==
    /\ UNCHANGED <<full_text, chunk_size, overlap>>
    /\ UNCHANGED <<earlierVars, normVars, keyVars, mentionVars, batchVars,
                 hintVars>>

\* lines 1225-1229: the early return, or chunks = [] and start = 0
EnterChunks ==
    /\ pc = "start"
    /\ IF Len(full_text) <= chunk_size
       THEN chunks' = <<full_text>> /\ pc' = "done"
       ELSE chunks' = <<>> /\ pc' = "loop"
    /\ span_start' = 0
    /\ ChunkLoopFrame

\* lines 1243-1245 for the span that ends at `end`
WithChunk(found, s, start, end) ==
    IF ChunkOf(s, [start |-> start, end |-> end]) # <<>>
    THEN Append(found, ChunkOf(s, [start |-> start, end |-> end]))
    ELSE found

\* lines 1231-1247: one iteration of the while loop
ChunkStep ==
    /\ pc = "loop"
    /\ span_start < Len(full_text)
    /\ chunks' = WithChunk(chunks, full_text, span_start,
                           SpanEnd(full_text, span_start, chunk_size))
    /\ span_start' = NextStart(SpanEnd(full_text, span_start, chunk_size), overlap)
    /\ pc' = "loop"
    /\ ChunkLoopFrame

\* line 1249: the loop condition fails and the list is returned
ReturnChunks ==
    /\ pc = "loop"
    /\ span_start >= Len(full_text)
    /\ pc' = "done"
    /\ UNCHANGED <<chunks, span_start>>
    /\ ChunkLoopFrame

NextChunkLoop == EnterChunks \/ ChunkStep \/ ReturnChunks

\* the interpreter runs the loop as long as its condition holds
SpecChunkLoop == InitChunkLoop /\ [][NextChunkLoop]_vars /\ WF_vars(NextChunkLoop)

\* ------------------------------------------------------------------------
\* Claims about create_text_chunks
\* ------------------------------------------------------------------------
\* the spans the call under check cut, and those that gave a chunk
CutSpans == Spans(full_text, 0, chunk_size, overlap)
KeptSpans == SelectSeq(CutSpans, LAMBDA sp : ChunkOf(full_text, sp) # <<>>)
Chunked == pc = "done" /\ Len(full_text) > chunk_size
WasSnapped(sp) == sp.end < sp.start + chunk_size

\* C16 as stated: for a text longer than the budget, the last `overlap`
\* characters of every chunk are the first `overlap` characters of the next.
C16_ExactOverlap ==
    Chunked =>
        \A k \in 1..(Len(chunks) - 1) :
            /\ Len(chunks[k]) >= overlap
            /\ Len(chunks[k + 1]) >= overlap
            /\ SubSeq(chunks[k], Len(chunks[k]) - overlap + 1, Len(chunks[k]))
               = SubSeq(chunks[k + 1], 1, overlap)

\* C16 amended: for a text longer than the budget, each span after the first
\* starts exactly `overlap` characters before the end of the span before it,
\* also behind a span cut at a boundary and for the last span; unless that
\* end lies beyond the text, the next span reaches at least as far, so that
\* the two share exactly those `overlap` characters of the text.  The chunks
\* are the spans stripped of surrounding whitespace, without the empty ones.
C16_SpansOverlap ==
    Chunked =>
        /\ chunks = [k \in 1..Len(KeptSpans) |->
                        Strip(Slice(full_text, KeptSpans[k].start, KeptSpans[k].end))]
        /\ \A k \in 1..(Len(CutSpans) - 1) :
              /\ CutSpans[k + 1].start = CutSpans[k].end - overlap
              /\ CutSpans[k].end <= Len(full_text)
                    => CutSpans[k + 1].end >= CutSpans[k].end

\* a span cut behind a newline whose chunk lost it, followed by a last span
\* that is shorter than the overlap
C16_Witness ==
    /\ Chunked
    /\ Len(CutSpans) >= 3
    /\ Len(chunks) = Len(CutSpans)
    /\ \E k \in 1..(Len(CutSpans) - 1) :
          /\ WasSnapped(CutSpans[k])
          /\ full_text[CutSpans[k].end] = "\n"
          /\ Len(chunks[k]) < CutSpans[k].end - CutSpans[k].start
    /\ Len(full_text) - CutSpans[Len(CutSpans)].start < overlap

\* C17 as stated: a text within the budget gives one chunk equal to it; for a
\* longer text every chunk is within the budget and every position of the
\* text lies in the span of a chunk.
C17_EveryPositionInAChunk ==
    pc = "done" =>
        /\ Len(full_text) <= chunk_size => chunks = <<full_text>>
        /\ Len(full_text) > chunk_size =>
              /\ \A k \in 1..Len(chunks) : Len(chunks[k]) <= chunk_size
              /\ \A p \in 0..(Len(full_text) - 1) :
                    \E k \in 1..Len(KeptSpans) :
                        KeptSpans[k].start <= p /\ p < KeptSpans[k].end

\* C17 amended: a text within the budget gives one chunk equal to it; for a
\* longer text every chunk is within the budget and every position of the
\* text lies in the span of a chunk or in a span that holds only whitespace,
\* which gives no chunk.
C17_OnlyBlankSpansDropped ==
    pc = "done" =>
        /\ Len(full_text) <= chunk_size => chunks = <<full_text>>
        /\ Len(full_text) > chunk_size =>
              /\ Len(chunks) = Len(KeptSpans)
              /\ \A k \in 1..Len(chunks) : Len(chunks[k]) <= chunk_size
              /\ \A p \in 0..(Len(full_text) - 1) :
                    \/ \E k \in 1..Len(KeptSpans) :
                          KeptSpans[k].start <= p /\ p < KeptSpans[k].end
                    \/ /\ full_text[p + 1] \in Whitespace
                       /\ \E k \in 1..Len(CutSpans) :
                             /\ CutSpans[k].start <= p /\ p < CutSpans[k].end
                             /\ ChunkOf(full_text, CutSpans[k]) = <<>>

\* a longer text with a span of whitespace that gave no chunk, around a
\* position that no other span holds
C17_Witness ==
    /\ Chunked
    /\ Len(chunks) >= 2
    /\ Len(chunks) < Len(CutSpans)
    /\ \E p \in 0..(Len(full_text) - 1) :
          \A k \in 1..Len(KeptSpans) :
              ~(KeptSpans[k].start <= p /\ p < KeptSpans[k].end)

\* C30: with the default budget 900 and overlap 150, every iteration of the
\* loop of create_text_chunks leaves its start offset greater than it found
\* it, also when the end of the span was pulled back to a boundary, and the
\* call returns.
C30_StartIncreases ==
    /\ [][pc = "loop" /\ pc' = "loop" => span_start' > span_start]_vars
    /\ <>(pc = "done")

\* a call with the defaults returned after an iteration that pulled the end
\* of its span back to a boundary and stepped ahead by less than a budget
C30_Witness ==
    /\ chunk_size = DefaultChunkSize /\ overlap = DefaultOverlap
    /\ pc = "done"
    /\ Len(chunks) >= 3
    /\ span_start >= Len(full_text)
    /\ \E k \in 1..Len(CutSpans) : WasSnapped(CutSpans[k])
    /\ chunks = CreateTextChunks(full_text, chunk_size, overlap)

\* ------------------------------------------------------------------------
\* _sanitize_document_key
\* ------------------------------------------------------------------------
\* what [a-zA-Z0-9_\-=] matches
KeySafe ==
    {"a", "b", "c", "d", "e", "f", "g", "h", "i", "j", "k", "l", "m", "n", "o",
     "p", "q", "r", "s", "t", "u", "v", "w", "x", "y", "z",
     "A", "B", "C", "D", "E", "F", "G", "H", "I", "J", "K", "L", "M", "N", "O",
     "P", "Q", "R", "S", "T", "U", "V", "W", "X", "Y", "Z",
     "0", "1", "2", "3", "4", "5", "6", "7", "8", "9", "_", "-", "="}

\* re.sub(r"[^a-zA-Z0-9_\-=]", "_", key)
ReplaceUnsafe(key) ==
    [k \in 1..Len(key) |-> IF key[k] \in KeySafe THEN key[k] ELSE "_"]

CharsOf(marked) == [k \in 1..Len(marked) |-> marked[k].c]

\* re.sub(r"_+", "_", sanitized): of a run of underscores the first stays
CollapseUnderscores(s) ==
    CharsOf(SelectSeq([k \in 1..Len(s) |->
                          [c |-> s[k],
                           keep |-> s[k] # "_" \/ k = 1 \/ s[k - 1] # "_"]],
                      LAMBDA r : r.keep))

\* sanitized.strip("_")
StripUnderscores(s) == RStripSet(LStripSet(s, {"_"}), {"_"})

KeyCutoff == 1000
KeyKept == 992

\* lines 1341-1343: a key past the cutoff is cut and gets the hash suffix
WithHashSuffix(sanitized, hash_suffix) ==
    IF Len(sanitized) > KeyCutoff
    THEN SubSeq(sanitized, 1, KeyKept) \o <<"_">> \o hash_suffix
    ELSE sanitized

\* _sanitize_document_key(key), hash_suffix being md5(key).hexdigest()[:8]
SanitizeDocumentKey(key, hash_suffix) ==
    WithHashSuffix(StripUnderscores(CollapseUnderscores(ReplaceUnsafe(key))),
                   hash_suffix)

\* ------------------------------------------------------------------------
\* Specification of _sanitize_document_key: a key is sanitized, and what
\* came out is sanitized again
\* ------------------------------------------------------------------------
MaxKeyPieces == 3

KeyPieces ==
    {<<"A", "b">>, <<":", ":">>, <<"_">>, <<"0">>, <<"=">>, <<"-">>, <<"/">>}

\* the lengths of the run of letters that brings a key near the cutoff
FillerLengths == {989, 990, 991, 998, 999, 1000}

Filler(n) == [k \in 1..n |-> "a"]

LongKeys ==
    {h \o Filler(n) \o t :
        h \in TextsOf(KeyPieces, 1), n \in FillerLengths, t \in TextsOf(KeyPieces, 1)}

RawKeys == TextsOf(KeyPieces, MaxKeyPieces) \cup LongKeys

\* eight hexadecimal digits
HashSuffixes ==
    {<<"0", "a", "1", "b", "2", "c", "3", "d">>,
     <<"f", "f", "0", "0", "9", "e", "8", "7">>}

\* digest[1] is the suffix of the key first handed in, digest[2] that of any
\* other key
InitKey ==
    /\ pc = "start"
    /\ raw_doc_id \in RawKeys
    /\ digest \in HashSuffixes \X HashSuffixes
    /\ doc_id = <<>>
    /\ EarlierIdle
    /\ NormIdle
    /\ ChunkIdle
    /\ MentionIdle
    /\ BatchIdle
    /\ HintIdle

\* doc_id = self._sanitize_document_key(raw_doc_id)
SanitizeKey ==
    /\ pc = "start"
    /\ doc_id' = SanitizeDocumentKey(raw_doc_id, digest[1])
    /\ pc' = "done"
    /\ UNCHANGED <<raw_doc_id, digest>>
    /\ UNCHANGED <<earlierVars, normVars, chunkVars, mentionVars, batchVars,
                 hintVars>>

\* the key that came out is handed in again
SanitizeAgain ==
    /\ pc = "done"
    /\ raw_doc_id' = doc_id
    /\ doc_id' = SanitizeDocumentKey(doc_id, IF doc_id = raw_doc_id THEN digest[1]
                                             ELSE digest[2])
    /\ pc' = "again"
    /\ UNCHANGED digest
    /\ UNCHANGED <<earlierVars, normVars, chunkVars, mentionVars, batchVars,
                 hintVars>>

NextKey == SanitizeKey \/ SanitizeAgain

SpecKey == InitKey /\ [][NextKey]_vars

\* ------------------------------------------------------------------------
\* Claims about _sanitize_document_key
\* ------------------------------------------------------------------------
\* C18 as stated: sanitizing a sanitized key gives the same key, also for a
\* key that got the hash suffix.
C18_Idempotent == pc = "again" => doc_id = raw_doc_id

\* the part of C18 that the code keeps: a sanitized key within the cutoff is
\* left as it is
C18_IdempotentWithinCutoff ==
    (pc = "again" /\ Len(raw_doc_id) <= KeyCutoff) => doc_id = raw_doc_id

\* ------------------------------------------------------------------------
\* Specification of _is_self_mention_text
\* ------------------------------------------------------------------------
MaxMentionPieces == 3

MentionPieces ==
    {<<"@">>, <<"m">>, <<"o">>, <<"M">>, <<" ">>, <<"nim">>, <<"(", "x", ")">>,
     <<"@", "d">>, <<"t">>, <<"x">>}

\* recipients: the one of the other specifications, one whose name has a
\* capital and a blank, and one of which nothing is known
MentionContexts ==
    {UserContext,
     [name |-> <<"M", " ", "o">>, email |-> <<"O", "@", "d">>, team |-> <<"x">>],
     [name |-> <<>>, email |-> <<>>, team |-> <<>>]}

InitMention ==
    /\ pc = "start"
    /\ mention \in TextsOf(MentionPieces, MaxMentionPieces)
    /\ uctx \in MentionContexts
    /\ is_self = FALSE
    /\ email = <<>>
    /\ signals = <<>>
    /\ SegIdle
    /\ ValidateIdle
    /\ ExtractIdle
    /\ NormIdle
    /\ ChunkIdle
    /\ KeyIdle
    /\ BatchIdle
    /\ HintIdle

\* self._is_self_mention_text(m.group(0), user_context)
RunMention ==
    /\ pc = "start"
    /\ is_self' = IsSelfMentionText(mention, uctx)
    /\ pc' = "done"
    /\ UNCHANGED <<mention, earlierVars, normVars, chunkVars, keyVars, batchVars,
                   hintVars>>

NextMention == RunMention

SpecMention == InitMention /\ [][NextMention]_vars

\* ------------------------------------------------------------------------
\* Claims about _is_self_mention_text
\* ------------------------------------------------------------------------
\* case and blanks ignored
Folded(s) == Lower(Remove(s, " "))

\* the name part of the mention: what follows its "@" up to a parenthesis,
\* folded, without a trailing honorific
MentionName ==
    StripHonorific(Folded(BeforeFirst(LStripSet(Strip(mention), {"@"}), "(")))

RecipientName == Folded(Strip(uctx.name))
RecipientEmail == Folded(Strip(uctx.email))
RecipientTeam == Folded(Strip(uctx.team))

\* the recipient's name, email local-part, full email and team token
RecipientTokens ==
    {RecipientName, BeforeFirst(RecipientEmail, "@"), RecipientEmail, RecipientTeam}
        \ {<<>>}

Judged == pc = "done" /\ StartsWith(Strip(mention), <<"@">>)

\* a mention of another name that holds the recipient's name
HoldsRecipientName ==
    /\ MentionName \notin RecipientTokens
    /\ RecipientName # <<>>
    /\ Contains(MentionName, RecipientName)

StartsWithRecipientName ==
    /\ RecipientName # <<>>
    /\ StartsWith(Folded(Strip(mention)), <<"@">> \o RecipientName)

\* C20 as stated: a mention whose name part is the recipient's name, email
\* local-part, full email or team token is the recipient's; a mention of
\* another name that holds the recipient's name as a prefix or substring is
\* not.
C20_NoPrefixOrSubstringMatch ==
    Judged =>
        /\ MentionName \in RecipientTokens => is_self
        /\ HoldsRecipientName => ~is_self

\* C20 amended: a mention whose name part is the recipient's name, email
\* local-part, full email or team token is the recipient's, and so is every
\* mention that starts with the recipient's name, a longer name included; a
\* mention of another name that holds the recipient's name elsewhere is not
\* the recipient's, unless it also holds the recipient's email or team token.
C20_PrefixMatches ==
    Judged =>
        /\ MentionName \in RecipientTokens => is_self
        /\ StartsWithRecipientName => is_self
        /\ ( /\ HoldsRecipientName
             /\ ~StartsWithRecipientName
             /\ ~(RecipientEmail # <<>>
                  /\ Contains(Folded(Strip(mention)), RecipientEmail))
             /\ ~(RecipientTeam # <<>>
                  /\ Contains(Folded(Strip(mention)), RecipientTeam)) )
           => ~is_self

\* a mention of a longer name that starts with the recipient's name, written
\* with a capital, is taken as the recipient's
C20_Witness ==
    /\ Judged
    /\ HoldsRecipientName
    /\ StartsWithRecipientName
    /\ \E k \in 1..Len(mention) : mention[k] = "M"
    /\ is_self

\* ------------------------------------------------------------------------
\* process_emails, upload_to_search and save_to_table_storage
\* ------------------------------------------------------------------------
MaxBatch == 2

\* "@m by tomorrow"
BatchBody == <<"@", "m", " ">> \o DuePhrase

\* the data of a record of the input file
RawEmail(id, from, subject) ==
    [t |-> "dict", email_id |-> PyStr(id), subject |-> PyStr(subject),
     email_body |-> PyStr(BatchBody), from_address |-> PyStr(from),
     to_addresses |-> PyList(<<Me>>), cc_addresses |-> PyList(<<>>),
     date |-> PyStr(Chars("2024-06-10T09:00:00+09:00"))]

Item(record_id, data) == [t |-> "dict", recordId |-> record_id, data |-> data]

\* an item that is no dictionary, one without data, one whose data is a
\* list, an email without subject, an email the recipient received and one
\* the recipient sent
BatchItems ==
    {PyStr(<<"w">>), Item("r0", PyNone), Item("r0", PyList(<<"w">>)),
     Item("r0", RawEmail(<<"e", "0">>, Other, <<>>)),
     Item("r1", RawEmail(<<"e", "1">>, Other, Subject)),
     Item("r2", RawEmail(<<"e", "2">>, Me, Subject))}

\* lines 1438-1443
RequiredFields == {"subject", "email_body", "from_address"}
MissingFields(data) == {f \in RequiredFields : ~Truthy(data[f])}

\* lines 1420-1447: the tests that end an iteration with `continue`
IsSkipped(item) ==
    \/ item.t # "dict"
    \/ ~Truthy(item.data)
    \/ item.data.t # "dict"
    \/ MissingFields(item.data) # {}

AddressList(addresses) ==
    [k \in 1..Len(addresses) |-> Person(<<>>, addresses[k])]

\* preprocess_email on a record without html_body, signature or names
PreprocessEmail(data) ==
    [emailId |-> data.email_id.v, subject |-> data.subject.v,
     body |-> Strip(data.email_body.v),
     from |-> Person(<<>>, data.from_address.v),
     to |-> AddressList(data.to_addresses.v),
     cc |-> AddressList(data.cc_addresses.v),
     receivedAt |-> data.date]

\* what the completion service may answer for an email of the batch
BatchActions ==
    [t : {"dict"}, type : ModelTypes, title : {PyStr(<<"w">>)},
     priority : {PySym("High")}, tags : {PyList(<<"a">>)},
     assignee_candidates : {PyList(<<Other>>)},
     due_raw : {PyNone, PyStr(DuePhrase),
                PyStr(<<"oh", "neul", " ", "2", "5", "si">>)},
     rationale : {PySym("")}]

BatchAnswers ==
    {PyNone, PyInt}
    \cup [t : {"dict"}, is_action : {PyBool(TRUE), PyBool(FALSE), PyNone},
          policy_decision : {PyNone}, action : BatchActions \cup {PyNone}]

\* what extract_actions_with_llm returns: a validated answer, or one of its
\* two results without action when the calls failed or found nothing
ExtractReturns(mail, policy_signals) ==
    {FallbackFailure, ExhaustedResult(policy_signals)}
    \cup {o \in {ValidateAndFixAction(r, ContextOf(mail.subject, mail.body), <<>>,
                                      policy_signals, UserContext) :
                    r \in BatchAnswers} : o.t = "ok"}

\* the dictionary that _validate_and_fix_action built, as normalize_action
\* reads it
ValidatedAction(a) ==
    [t |-> "dict", type |-> PySym(a.type), title |-> PyStr(a.title),
     priority |-> PySym(a.priority), tags |-> PyList(a.tags),
     assignee_candidates |-> PyList(a.assignee_candidates),
     due_raw |-> a.due_raw, due_resolved_iso |-> PyNone,
     due_resolved_kst |-> PyNone, rationale |-> PySym(a.rationale)]

ValidatedResult(o) ==
    [t |-> "dict", is_action |-> PyBool(o.is_action),
     policy_decision |-> PySym(o.policy_decision),
     action |-> IF o.action = PyNone THEN PyNone ELSE ValidatedAction(o.action)]

\* datetime.now(kst) during the run: Wednesday 2024-06-12 08:00
BatchClock == [y |-> 2024, m |-> 6, d |-> 12, hour |-> 8, minute |-> 0]
BatchConfidence == 65

\* lines 1473-1478: normalize_action is called for a result with is_action
NormalizeFor(x, mail) ==
    IF x.is_action
    THEN NormalizeAction(ValidatedResult(x), mail, BatchClock, [t |-> "raise"],
                         Completion_Error, BatchConfidence)
    ELSE [t |-> "ok", value |-> PyNone, llm |-> <<>>]

\* f"{emailId}::{i}", sanitized; the keys of the model stay below the cutoff
DocKey(email_id, i) ==
    SanitizeDocumentKey(email_id \o <<":", ":", Digits[i + 1]>>, <<>>)

\* get_embeddings: a vector for each text, vectors of zeros when the call fails
GetEmbeddings(texts, emb_ok) ==
    [k \in 1..Len(texts) |-> IF emb_ok THEN "vector" ELSE "zeros"]

\* lines 1286-1320: the document of chunk i (0-based); action_type is PyNone
\* when the document holds no field of an action
Document(mail, i, chunk, embedding, action) ==
    [id |-> DocKey(mail.emailId, i), emailId |-> mail.emailId, chunk |-> chunk,
     chunkEmbedding |-> embedding,
     action_type |-> IF Truthy(action) THEN action.type ELSE PyNone]

\* lines 1271-1322
Documents(mail, found, embeddings, action) ==
    [k \in 1..Min(Len(found), Len(embeddings)) |->
        Document(mail, k - 1, found[k], embeddings[k], action)]

\* mergeOrUpload of one document: the fields it holds replace those stored
Merged(index, doc) ==
    IF doc.id \in DOMAIN index /\ doc.action_type = PyNone
    THEN [doc EXCEPT !.action_type = index[doc.id].action_type]
    ELSE doc

\* search_client.upload_documents(documents)
UploadDocuments(index, docs) ==
    [key \in DOMAIN index \cup {docs[k].id : k \in 1..Len(docs)} |->
        IF \E k \in 1..Len(docs) : docs[k].id = key
        THEN Merged(index, docs[CHOOSE k \in 1..Len(docs) : docs[k].id = key])
        ELSE index[key]]

\* lines 1359-1374
Entity(action, mail) ==
    [PartitionKey |-> "techcorp", RowKey |-> DocKey(mail.emailId, 0),
     subject |-> mail.subject, title |-> action.title, type |-> action.type,
     due |-> action.due, done |-> FALSE]

\* actions_table.upsert_entity(entity)
UpsertEntity(table, entity) ==
    [key \in DOMAIN table \cup {entity.RowKey} |->
        IF key = entity.RowKey THEN entity ELSE table[key]]

Call(name, ok) == [call |-> name, ok |-> ok]

\* what an iteration leaves: the statistics, the stores, and a record of it
Iteration(st, index, table, outcome, calls_made, x, action) ==
    [stats |-> st, search_index |-> index, actions_table |-> table,
     last |-> [outcome |-> outcome, calls |-> calls_made, action_result |-> x,
               normalized_action |-> action]]

\* an iteration ended by `continue`
Skip == Iteration(stats, search_index, actions_table, "skipped", <<>>, PyNone, PyNone)

\* lines 1495-1498, after `extracted` actions were counted
Errored(item, error, extracted, calls_made, x, action) ==
    Iteration([stats EXCEPT !.actions_extracted = @ + extracted,
                            !.errors = Append(@, <<item.recordId, error>>)],
              search_index, actions_table, "error", calls_made, x, action)

\* lines 1483-1493 after the upload: save_to_table_storage for an action,
\* whose failure is logged, and the count of the email
Saved(index, extracted, calls_made, x, action, mail, upsert_ok) ==
    Iteration([stats EXCEPT !.actions_extracted = @ + extracted,
                            !.processed_emails = @ + 1],
              index,
              IF Truthy(action) /\ upsert_ok
              THEN UpsertEntity(actions_table, Entity(action, mail))
              ELSE actions_table,
              "processed",
              IF Truthy(action)
              THEN Append(calls_made, Call("upsert_entity", upsert_ok))
              ELSE calls_made,
              x, action)

\* upload_to_search and what follows it, for the chunks `found`
Uploaded(item, mail, x, action, found, emb_ok, upload_ok, upsert_ok) ==
    IF upload_ok
    THEN Saved(UploadDocuments(search_index,
                               Documents(mail, found, GetEmbeddings(found, emb_ok),
                                         action)),
               IF Truthy(action) THEN 1 ELSE 0,
               <<Call("embeddings", emb_ok), Call("upload_documents", TRUE)>>,
               x, action, mail, upsert_ok)
    ELSE Errored(item, "upload", IF Truthy(action) THEN 1 ELSE 0,
                <<Call("embeddings", emb_ok), Call("upload_documents", FALSE)>>,
                x, action)

\* lines 1472-1493 for the outcome n of normalize_action
Normalized(item, mail, x, n, emb_ok, upload_ok, upsert_ok) ==
    IF n.t = "raise" THEN Errored(item, "ValueError", 0, <<>>, x, PyNone)
    ELSE Uploaded(item, mail, x, n.value,
                  CreateTextChunks(ContextOf(mail.subject, mail.body),
                                   DefaultChunkSize, DefaultOverlap),
                  emb_ok, upload_ok, upsert_ok)

\* lines 1449-1493 for the standardized email and the extractor's result x
Extracted(item, mail, x, emb_ok, upload_ok, upsert_ok) ==
    Normalized(item, mail, x, NormalizeFor(x, mail), emb_ok, upload_ok, upsert_ok)

\* ------------------------------------------------------------------------
\* Specification of process_emails: a batch is processed item by item while
\* the retrieval API marks rows of the Actions table as done
\* ------------------------------------------------------------------------
NoIteration ==
    [outcome |-> "none", calls |-> <<>>, action_result |-> PyNone,
     normalized_action |-> PyNone]

InitBatch ==
    /\ pc = "start"
    /\ emails \in UNION {[1..n -> BatchItems] : n \in 0..MaxBatch}
    /\ handled = 0
    /\ stats = <<>>
    /\ search_index = <<>>
    /\ actions_table = <<>>
    /\ last = NoIteration
    /\ EarlierIdle
    /\ NormIdle
    /\ ChunkIdle
    /\ KeyIdle
    /\ MentionIdle
    /\ HintIdle

BatchFrame ==
    UNCHANGED <<earlierVars, normVars, chunkVars, keyVars, mentionVars, hintVars>>

\* lines 1409-1414
StartBatch ==
    /\ pc = "start"
    /\ stats' = [total_emails |-> Len(emails), processed_emails |-> 0,
                 actions_extracted |-> 0, errors |-> <<>>]
    /\ pc' = "loop"
    /\ UNCHANGED <<emails, handled, search_index, actions_table, last>>
    /\ BatchFrame

Leaves(it) ==
    /\ stats' = it.stats
    /\ search_index' = it.search_index
    /\ actions_table' = it.actions_table
    /\ last' = it.last

\* lines 1417-1498: one iteration of the loop over the items
HandleItem ==
    /\ pc = "loop"
    /\ handled < Len(emails)
    /\ IF IsSkipped(emails[handled + 1])
       THEN Leaves(Skip)
       ELSE \E emb_ok, upload_ok, upsert_ok \in BOOLEAN :
               \E x \in ExtractReturns(
                            PreprocessEmail(emails[handled + 1].data),
                            AnalyzeWithPolicyEngine(emails[handled + 1].data,
                                                    PolicyContextOf(UserContext))) :
                   Leaves(Extracted(emails[handled + 1],
                                    PreprocessEmail(emails[handled + 1].data),
                                    x, emb_ok, upload_ok, upsert_ok))
    /\ handled' = handled + 1
    /\ pc' = "loop"
    /\ UNCHANGED emails
    /\ BatchFrame

\* lines 1500-1508
ReturnStats ==
    /\ pc = "loop"
    /\ handled = Len(emails)
    /\ pc' = "done"
    /\ UNCHANGED batchVars
    /\ BatchFrame

\* the update operation of the retrieval API on one row of the table
MarkDone ==
    /\ \E key \in DOMAIN actions_table :
          /\ ~actions_table[key].done
          /\ actions_table' = [actions_table EXCEPT ![key].done = TRUE]
    /\ UNCHANGED <<pc, emails, handled, stats, search_index, last>>
    /\ BatchFrame

NextBatch == StartBatch \/ HandleItem \/ ReturnStats \/ MarkDone

SpecBatch == InitBatch /\ [][NextBatch]_vars

\* ------------------------------------------------------------------------
\* Claims about process_emails
\* ------------------------------------------------------------------------
\* the count of skipped records in the statistics: the dictionary of lines
\* 1409-1414 has no such key, and the four `continue` add to no count
SkippedCounted == IF "skipped" \in DOMAIN stats THEN stats.skipped ELSE 0

\* the records that the statistics count
RecordsCounted ==
    stats.processed_emails + SkippedCounted + Len(stats.errors)

\* C22 as stated: the loop goes through every item whatever happens to one
\* of them, and the statistics it returns count every item once, as
\* processed, skipped or failed, with no more actions extracted than emails
\* processed.
C22_EveryRecordCounted ==
    pc = "done" =>
        /\ handled = Len(emails)
        /\ stats.total_emails = Len(emails)
        /\ RecordsCounted = stats.total_emails
        /\ stats.actions_extracted <= stats.processed_emails

\* the latest iteration made an external call that failed
CallFailed == \E k \in 1..Len(last.calls) : ~last.calls[k].ok
WasCalled(name) == \E k \in 1..Len(last.calls) : last.calls[k].call = name

\* C23 as stated: when an external call made for a record fails, the failure
\* stays inside the operation that made the call: the record is not reported
\* as failed, and the steps behind the call still run, so that an action that
\* was extracted is still handed to the table.
C23_ExternalFailureCaught ==
    CallFailed =>
        /\ last.outcome = "processed"
        /\ WasCalled("upload_documents")
        /\ Truthy(last.normalized_action) => WasCalled("upsert_entity")

\* C24 as stated: a done flag that is set stays set whatever the pipeline
\* does; only the retrieval API changes it.
C24_DoneStaysSet ==
    [][\A key \in DOMAIN actions_table :
          actions_table[key].done =>
              key \in DOMAIN actions_table' /\ actions_table'[key].done]_vars

\* the types an action may have
ActionTypes == {"DO", "FOLLOW_UP"}

\* what the extractor returned in the latest iteration, if it handled an email
Extractor == last.action_result
HandledEmail == last.outcome \in {"processed", "error"}

\* C28: a validated result holds an action only of type DO or FOLLOW_UP, and
\* holds one whenever is_action is true; the action that normalize_action
\* returns, every document of the index that carries an action and every row
\* of the Actions table have one of these two types.
C28_OnlyDoOrFollowUp ==
    /\ HandledEmail =>
          /\ Extractor.action # PyNone => Extractor.action.type \in ActionTypes
          /\ Extractor.is_action => Extractor.action # PyNone
          /\ Truthy(last.normalized_action) =>
                 /\ Extractor.is_action
                 /\ last.normalized_action.type = PySym(Extractor.action.type)
    /\ \A key \in DOMAIN search_index :
          search_index[key].action_type # PyNone =>
              search_index[key].action_type \in {PySym(ty) : ty \in ActionTypes}
    /\ \A key \in DOMAIN actions_table :
          actions_table[key].type \in {PySym(ty) : ty \in ActionTypes}

\* an answer of type NONE for an email that the recipient sent: the result
\* is a FOLLOW_UP, and it is stored as one
C28_Witness ==
    /\ pc = "done"
    /\ last.outcome = "processed"
    /\ Extractor.is_action
    /\ Extractor.action.type = "FOLLOW_UP"
    /\ Truthy(last.normalized_action)
    /\ \E key \in DOMAIN actions_table :
          actions_table[key].type = PySym("FOLLOW_UP")
    /\ \E key \in DOMAIN actions_table :
          actions_table[key].type = PySym("DO")

\* ------------------------------------------------------------------------
\* _pre_extract_deadlines (lines 141-174)
\* ------------------------------------------------------------------------
MaxHintPieces == 3
MaxItems == 3

\* A regular expression as a tree; hi = -1 is a repetition without a limit.
ReLit(c) == [re |-> "lit", c |-> c]
ReSet(S) == [re |-> "set", chars |-> S]
ReNot(S) == [re |-> "not", chars |-> S]
ReWordB == [re |-> "b"]
ReCat(parts) == [re |-> "cat", parts |-> parts]
ReAlt(parts) == [re |-> "alt", parts |-> parts]
ReRep(part, lo, hi) == [re |-> "rep", part |-> part, lo |-> lo, hi |-> hi]
ReOpt(part) == ReRep(part, 0, 1)
ReStar(part) == ReRep(part, 0, -1)
ReStr(s) == ReCat([k \in 1..Len(s) |-> ReLit(s[k])])

\* The offsets at which a match of r that starts at offset i of t can end, in
\* the order in which the backtracking matcher of `re` tries them (greedy
\* repetitions first the longer, alternatives left to right); letters are
\* compared as re.IGNORECASE does.
RECURSIVE Ends(_, _, _)
RECURSIVE EndsFromAll(_, _, _)
RECURSIVE CatEnds(_, _, _, _)
RECURSIVE AltEnds(_, _, _, _)
RECURSIVE RepEnds(_, _, _, _)
RECURSIVE RepEndsFromAll(_, _, _, _)

EndsFromAll(r, t, starts) ==
    IF starts = <<>> THEN <<>>
    ELSE Ends(r, t, Head(starts)) \o EndsFromAll(r, t, Tail(starts))

CatEnds(parts, k, t, starts) ==
    IF k > Len(parts) \/ starts = <<>> THEN starts
    ELSE CatEnds(parts, k + 1, t, EndsFromAll(parts[k], t, starts))

AltEnds(parts, k, t, i) ==
    IF k > Len(parts) THEN <<>>
    ELSE Ends(parts[k], t, i) \o AltEnds(parts, k + 1, t, i)

RepEndsFromAll(r, t, starts, n) ==
    IF starts = <<>> THEN <<>>
    ELSE RepEnds(r, t, Head(starts), n) \o RepEndsFromAll(r, t, Tail(starts), n)

RepEnds(r, t, i, n) ==
    (IF r.hi < 0 \/ n < r.hi
     THEN RepEndsFromAll(r, t, SelectSeq(Ends(r.part, t, i), LAMBDA e : e > i),
                         n + 1)
     ELSE <<>>)
    \o (IF n >= r.lo THEN <<i>> ELSE <<>>)

Ends(r, t, i) ==
    CASE r.re = "lit" ->
             IF i < Len(t) /\ UpperChar(t[i + 1]) = UpperChar(r.c)
             THEN <<i + 1>> ELSE <<>>
      [] r.re = "set" ->
             IF i < Len(t) /\ t[i + 1] \in r.chars THEN <<i + 1>> ELSE <<>>
      [] r.re = "not" ->
             IF i < Len(t) /\ t[i + 1] \notin r.chars THEN <<i + 1>> ELSE <<>>
      [] r.re = "b" -> IF WordBoundary(t, i) THEN <<i>> ELSE <<>>
      [] r.re = "cat" -> CatEnds(r.parts, 1, t, <<i>>)
      [] r.re = "alt" -> AltEnds(r.parts, 1, t, i)
      [] r.re = "rep" -> RepEnds(r, t, i, 0)

\* re.finditer(p, text): the matches from left to right, none overlapping
\* another; no pattern of the list matches the empty string
MatchesAt(r, t, i) == Ends(r, t, i) # <<>>

RECURSIVE FindIter(_, _, _)
FindIter(r, t, pos) ==
    IF \E i \in pos..Len(t) : MatchesAt(r, t, i)
    THEN LET i == Least({k \in pos..Len(t) : MatchesAt(r, t, k)})
             e == Head(Ends(r, t, i))
         IN  <<[start |-> i, end |-> e]>> \o FindIter(r, t, e)
    ELSE <<>>

\* the parts that the patterns share: \s*, \d{1,2}, "until", a day of a
\* month, a date, a time of day, a bracket behind a date
ReSpaces == ReStar(ReSet(Whitespace))
ReDigit == ReSet(DigitSet)
ReDigits12 == ReRep(ReDigit, 1, 2)
ReUntil == ReStr(<<"kka", "ji">>)
ReMonthDay == ReCat(<<ReDigits12, ReLit("/"), ReDigits12>>)
ReDate ==
    ReCat(<<ReRep(ReDigit, 4, 4), ReLit("-"), ReDigits12, ReLit("-"),
            ReDigits12>>)
ReClock == ReCat(<<ReDigits12, ReLit(":"), ReRep(ReDigit, 2, 2)>>)
ReBracket ==
    ReOpt(ReCat(<<ReLit("("), ReStar(ReNot({")"})), ReLit(")")>>))
ReDayWord ==
    ReAlt(<<ReStr(<<"geum", "il">>), ReStr(<<"oh", "neul">>),
            ReStr(<<"nae", "il">>), ReStr(<<"myeong", "il">>)>>)
ReAmPm == ReOpt(ReAlt(<<ReStr(<<"oh", "jeon">>), ReStr(<<"oh", "hu">>)>>))
ReHour ==
    ReCat(<<ReDigits12, ReLit("si"),
            ReOpt(ReCat(<<ReSpaces, ReDigits12, ReLit("bun")>>))>>)

\* lines 145-165: the patterns, in the order of the list
HintPatterns ==
    << ReCat(<<ReLit("("), ReSpaces, ReMonthDay, ReBracket, ReSpaces, ReUntil,
               ReSpaces, ReLit(")")>>),
       ReCat(<<ReMonthDay, ReBracket, ReSpaces, ReUntil>>),
       ReCat(<<ReDate, ReOpt(ReCat(<<ReSpaces, ReClock>>)), ReSpaces, ReUntil>>),
       ReCat(<<ReAlt(<<ReCat(<<ReStr(<<"i", "beon">>), ReSpaces, ReLit("ju")>>),
                       ReStr(<<"geum", "ju">>)>>),
               ReSpaces,
               ReSet({WeekdayNames[k] : k \in 1..7}),
               ReLit("yo"), ReOpt(ReLit("il")), ReSpaces, ReUntil>>),
       ReCat(<<ReDayWord, ReSpaces, ReAmPm, ReSpaces, ReHour, ReSpaces,
               ReUntil>>),
       ReCat(<<ReAmPm, ReSpaces, ReHour, ReSpaces, ReUntil>>),
       ReCat(<<ReDayWord, ReSpaces, ReUntil>>),
       ReCat(<<ReStr(<<"ma", "gam">>), ReStar(ReSet(Whitespace \cup {":"})),
               ReMonthDay, ReBracket>>),
       ReCat(<<ReWordB, ReMonthDay, ReWordB,
               ReOpt(ReCat(<<ReSpaces, ReClock>>))>>),
       ReDate,
       ReCat(<<ReRep(ReDigit, 1, -1), ReSpaces, ReLit("il"), ReSpaces,
               ReAlt(<<ReLit("hu"), ReLit("dwi")>>)>>),
       ReCat(<<ReWordB,
               ReAlt(<<ReStr(<<"E", "O", "D">>), ReStr(<<"E", "O", "W">>)>>),
               ReWordB>>),
       ReCat(<<ReStr(<<"eop", "mu">>), ReSpaces,
               ReAlt(<<ReStr(<<"jong", "ryo">>), ReStr(<<"si", "gan">>)>>),
               ReSpaces, ReLit("jeon")>>),
       ReCat(<<ReMonthDay, ReSpaces, ReLit("~"), ReSpaces, ReMonthDay>>),
       ReCat(<<ReDate, ReSpaces, ReLit("~"), ReSpaces, ReDate>>),
       ReAlt(<<ReCat(<<ReStr(<<"i", "beon">>), ReSpaces, ReLit("ju"), ReSpaces,
                       ReLit("nae")>>),
               ReStr(<<"ju", "jung">>),
               ReCat(<<ReStr(<<"i", "beon">>), ReSpaces, ReLit("dal"), ReSpaces,
                       ReLit("nae")>>),
               ReCat(<<ReStr(<<"wol", "mal">>), ReSpaces, ReUntil>>),
               ReCat(<<ReStr(<<"bun", "gi">>), ReSpaces, ReLit("mal"), ReSpaces,
                       ReUntil>>)>>) >>

\* m.group(0).strip() for every match of pattern p, in the order of finditer
HitsOf(p, text) ==
    LET found == FindIter(HintPatterns[p], text, 0)
    IN  [k \in 1..Len(found) |-> Strip(Slice(text, found[k].start, found[k].end))]

\* the list returned only once it is longer than the cap
Added_PastCap(found, hit, cap) ==
    [found |-> Append(found, hit), done |-> Len(found) + 1 > cap]

\* lines 171-173: a new hint is appended, and the list is returned from
\* inside the loops (done) when it has max_items elements
Added(found, hit, cap) ==
    [found |-> Append(found, hit), done |-> Len(found) + 1 >= cap]

\* lines 168-173: the matches of one pattern go into found, one after the
\* other, unless found holds them already
RECURSIVE Collect(_, _, _, _)
Collect(hits, k, state, cap) ==
    IF k > Len(hits) \/ state.done THEN state
    ELSE IF InList(hits[k], state.found) THEN Collect(hits, k + 1, state, cap)
    ELSE Collect(hits, k + 1, Added(state.found, hits[k], cap), cap)

\* lines 167-174: the loop over the patterns
RECURSIVE CollectFrom(_, _, _, _)
CollectFrom(p, text, state, cap) ==
    IF p > Len(HintPatterns) \/ state.done THEN state
    ELSE CollectFrom(p + 1, text, Collect(HitsOf(p, text), 1, state, cap), cap)

PreExtractDeadlines(text, cap) ==
    CollectFrom(1, text, [found |-> <<>>, done |-> FALSE], cap).found

\* ------------------------------------------------------------------------
\* Specification of _pre_extract_deadlines
\* ------------------------------------------------------------------------
\* "today until", "tomorrow until", "tomorrow 3 o'clock until", a day of a
\* month, "until", a blank, and a named constant
HintPieces ==
    {<<"oh", "neul", "kka", "ji">>, <<"nae", "il", "kka", "ji">>,
     <<"nae", "il", " ", "3", "si", "kka", "ji">>, <<"3", "/", "5">>,
     <<"kka", "ji">>, <<" ">>, <<"E", "O", "D">>}

HintTexts == TextsOf(HintPieces, MaxHintPieces)

InitHints ==
    /\ pc = "start"
    /\ hint_text \in HintTexts
    /\ max_items \in 1..MaxItems
    /\ hints = <<>>
    /\ EarlierIdle
    /\ NormIdle
    /\ ChunkIdle
    /\ KeyIdle
    /\ MentionIdle
    /\ BatchIdle

RunHints ==
    /\ pc = "start"
    /\ hints' = PreExtractDeadlines(hint_text, max_items)
    /\ pc' = "done"
    /\ UNCHANGED <<hint_text, max_items, earlierVars, normVars, chunkVars,
                   keyVars, mentionVars, batchVars>>

NextHints == RunHints

SpecHints == InitHints /\ [][NextHints]_vars

\* ------------------------------------------------------------------------
\* Claims about _pre_extract_deadlines
\* ------------------------------------------------------------------------
PatternNumbers == 1..Len(HintPatterns)

\* the matches of every pattern in the text of the call, stripped
RECURSIVE HitsFrom(_, _)
HitsFrom(p, text) ==
    IF p > Len(HintPatterns) THEN <<>>
    ELSE <<HitsOf(p, text)>> \o HitsFrom(p + 1, text)

AllHits == HitsFrom(1, hint_text)

\* the first pattern of the list that matches the hint h somewhere in the
\* text, and the place of h among the matches of that pattern
PatternOf(all, h) == Least({p \in PatternNumbers : InList(h, all[p])})
PlaceIn(hits, h) == Least({j \in 1..Len(hits) : hits[j] = h})
PlaceOf(all, h) == PlaceIn(all[PatternOf(all, h)], h)

IsHit(all, h) == \E p \in PatternNumbers : InList(h, all[p])

\* h comes before g: an earlier pattern, or the same pattern earlier in the text
Before(all, h, g) ==
    \/ PatternOf(all, h) < PatternOf(all, g)
    \/ /\ PatternOf(all, h) = PatternOf(all, g)
       /\ PlaceOf(all, h) < PlaceOf(all, g)

NoDuplicates(l) == \A k, j \in 1..Len(l) : l[k] = l[j] => k = j

FirstMatchPerPattern(all) ==
    /\ \A k \in 1..Len(hints) :
          /\ IsHit(all, hints[k])
          /\ PlaceOf(all, hints[k]) = 1
    /\ \A k \in 1..(Len(hints) - 1) :
          PatternOf(all, hints[k]) < PatternOf(all, hints[k + 1])
    /\ NoDuplicates(hints)
    /\ Len(hints) <= max_items

\* C27 as stated: the hints stand in the order of the patterns, no pattern
\* gives more than one of them and the one it gives is its first match; no
\* hint is there twice and there are at most max_items of them.
C27_FirstMatchPerPattern == pc = "done" => FirstMatchPerPattern(AllHits)

MatchesInOrder(all) ==
    /\ \A k \in 1..Len(hints) : IsHit(all, hints[k])
    /\ \A k \in 1..(Len(hints) - 1) : Before(all, hints[k], hints[k + 1])
    /\ NoDuplicates(hints)
    /\ Len(hints) <= max_items
    /\ \A p \in PatternNumbers :
          \A j \in 1..Len(all[p]) :
              ~InList(all[p][j], hints) =>
                  /\ Len(hints) = max_items
                  /\ Before(all, hints[Len(hints)], all[p][j])

\* C27 as amended: every match of a pattern is a hint, the matches of an
\* earlier pattern before those of a later, the matches of one pattern in the
\* order of the text; no hint is there twice, there are at most max_items of
\* them, and a match is left out only when the cap is reached, and it is one
\* that comes after the last hint.
C27_MatchesInOrder == pc = "done" => MatchesInOrder(AllHits)

TwoOfOnePattern(all) ==
    /\ \E k \in 1..(Len(hints) - 1) :
          PatternOf(all, hints[k]) = PatternOf(all, hints[k + 1])
    /\ \E p \in PatternNumbers : ~NoDuplicates(all[p])

\* two hints of one pattern, a match that is found twice and kept once, and
\* a list that is as long as the cap allows
C27_Witness == pc = "done" /\ Len(hints) = max_items /\ TwoOfOnePattern(AllHits)

LeftOut(all) ==
    \E p \in PatternNumbers : \E j \in 1..Len(all[p]) : ~InList(all[p][j], hints)

\* a match that the cap leaves out
C27_CapReached == pc = "done" /\ Len(hints) = max_items /\ LeftOut(AllHits)

====
